---- MODULE Spec2Model ----
(***************************************************************************)
(* A model of the R1CS verifier of bulletproofs-bs257                      *)
(* (src/src/r1cs/verifier.rs, src/src/util.rs).                            *)
(*                                                                         *)
(* The Verifier's fields are the variables transcript, constraints,        *)
(* num_vars, V, deferred_constraints and pending_multiplier.  The methods   *)
(* are operators over a record of those fields (so that the deferred        *)
(* callbacks, which run inside verification_scalars, can be applied to the  *)
(* same code), and each public method is one action.                        *)
(*                                                                         *)
(* Scalars are the integers modulo FrModulus; a curve point is written as   *)
(* its discrete logarithm to a fixed base of the prime-order group, so the  *)
(* identity point is 0.  The transcript is the sequence of the operations    *)
(* made on it.                                                              *)
(***************************************************************************)
EXTENDS Integers, Sequences, FiniteSets, TLC

(* ------------------------------ bounds --------------------------------- *)

\* Number of constraint-system calls made on one Verifier before verify.
MaxOps == 3

\* Number of constraint-system calls made on a Verifier handed to batch_verify.
MaxBatchOps == 1

\* Number of instances handed to batch_verify.
MaxInstances == 2

\* Number of constraints in a list given to flattened_constraints.
MaxConstraints == 3

\* Number of items taken from an iterator made by exp_iter.
MaxItems == 4

(* --------------------------- scalars, points --------------------------- *)

\* Order of the scalar field Fr (and of the group G1), scaled down.
FrModulus == 3

Fr == 0 .. (FrModulus - 1)

G1Affine == 0 .. (FrModulus - 1)

\* G1Affine::is_zero / the identity point.
Identity == 0

Neg(x) == (FrModulus - (x % FrModulus)) % FrModulus

Mul(x, y) == (x * y) % FrModulus

Add(x, y) == (x + y) % FrModulus

(* ------------------------------ Variable ------------------------------- *)

MultiplierLeft(i) == [tag |-> "MultiplierLeft", i |-> i]

MultiplierRight(i) == [tag |-> "MultiplierRight", i |-> i]

MultiplierOutput(i) == [tag |-> "MultiplierOutput", i |-> i]

Committed(i) == [tag |-> "Committed", i |-> i]

One == [tag |-> "One", i |-> 0]

IsMultiplier(var) == var.tag \in {"MultiplierLeft", "MultiplierRight", "MultiplierOutput"}

\* Option<usize>
None == [some |-> FALSE, i |-> 0]

Some(i) == [some |-> TRUE, i |-> i]

(* ------------------------------ R1CSError ------------------------------ *)

Ok == [kind |-> "Ok", msg |-> ""]

VerificationError == [kind |-> "VerificationError", msg |-> ""]

InvalidGeneratorsLength == [kind |-> "InvalidGeneratorsLength", msg |-> ""]

GadgetError(msg) == [kind |-> "GadgetError", msg |-> msg]

(* ------------------------------ Transcript ----------------------------- *)

Entry(op, label, data) == [op |-> op, label |-> label, data |-> data]

r1cs_domain_sep(t) == Append(t, Entry("dom_sep", "r1cs v1", 0))

r1cs_1phase_domain_sep(t) == Append(t, Entry("dom_sep", "r1cs-1phase", 0))

r1cs_2phase_domain_sep(t) == Append(t, Entry("dom_sep", "r1cs-2phase", 0))

append_u64(t, label, x) == Append(t, Entry("append", label, x))

append_point(t, label, point) == Append(t, Entry("append", label, point))

append_scalar(t, label, scalar) == Append(t, Entry("append", label, scalar))

\* Rejects the identity point, appends any other.
validate_and_append_point(t, label, point) ==
    IF point = Identity
    THEN [ok |-> FALSE, t |-> t]
    ELSE [ok |-> TRUE, t |-> append_point(t, label, point)]

\* The draw of a challenge advances the transcript.
challenge_scalar(t, label) == Append(t, Entry("challenge", label, 0))

(* ------------------- impl ConstraintSystem for Verifier ----------------- *)

constrain(self, lc) ==
    [self EXCEPT !.constraints = Append(@, lc)]

\* multiply that stores the right constraint before the left one
multiply_RightFirst(self, left, right) ==
    LET var   == self.num_vars
        s1    == [self EXCEPT !.num_vars = @ + 1]
        l_var == MultiplierLeft(var)
        r_var == MultiplierRight(var)
        o_var == MultiplierOutput(var)
        left1  == Append(left, <<l_var, Neg(1)>>)
        right1 == Append(right, <<r_var, Neg(1)>>)
        s2    == constrain(s1, right1)
        s3    == constrain(s2, left1)
    IN  [self |-> s3, ret |-> <<l_var, r_var, o_var>>]

\* multiply that takes the gate and drops the half-gate left pending by allocate
multiply_ClearPending(self, left, right) ==
    LET var   == self.num_vars
        s1    == [self EXCEPT !.num_vars = @ + 1, !.pending_multiplier = None]
        l_var == MultiplierLeft(var)
        r_var == MultiplierRight(var)
        o_var == MultiplierOutput(var)
        left1  == Append(left, <<l_var, Neg(1)>>)
        right1 == Append(right, <<r_var, Neg(1)>>)
        s2    == constrain(s1, left1)
        s3    == constrain(s2, right1)
    IN  [self |-> s3, ret |-> <<l_var, r_var, o_var>>]

multiply(self, left, right) ==
    LET var   == self.num_vars
        s1    == [self EXCEPT !.num_vars = @ + 1]
        l_var == MultiplierLeft(var)
        r_var == MultiplierRight(var)
        o_var == MultiplierOutput(var)
        left1  == Append(left, <<l_var, Neg(1)>>)
        right1 == Append(right, <<r_var, Neg(1)>>)
        s2    == constrain(s1, left1)
        s3    == constrain(s2, right1)
    IN  [self |-> s3, ret |-> <<l_var, r_var, o_var>>]

\* allocate that leaves the pending gate in place when it hands out its right wire.
allocate_NoClear(self) ==
    IF ~self.pending_multiplier.some
    THEN LET i == self.num_vars
         IN  [self |-> [self EXCEPT !.num_vars = @ + 1,
                                    !.pending_multiplier = Some(i)],
              ret |-> <<MultiplierLeft(i)>>]
    ELSE [self |-> self,
          ret |-> <<MultiplierRight(self.pending_multiplier.i)>>]

allocate(self) ==
    IF ~self.pending_multiplier.some
    THEN LET i == self.num_vars
         IN  [self |-> [self EXCEPT !.num_vars = @ + 1,
                                    !.pending_multiplier = Some(i)],
              ret |-> <<MultiplierLeft(i)>>]
    ELSE [self |-> [self EXCEPT !.pending_multiplier = None],
          ret |-> <<MultiplierRight(self.pending_multiplier.i)>>]

\* allocate_multiplier that does not count the gate it hands out.
allocate_multiplier_NoCount(self) ==
    LET var == self.num_vars
    IN  [self |-> self,
         ret |-> <<MultiplierLeft(var), MultiplierRight(var), MultiplierOutput(var)>>]

allocate_multiplier(self) ==
    LET var == self.num_vars
    IN  [self |-> [self EXCEPT !.num_vars = @ + 1],
         ret |-> <<MultiplierLeft(var), MultiplierRight(var), MultiplierOutput(var)>>]

specify_randomized_constraints(self, callback) ==
    [self EXCEPT !.deferred_constraints = Append(@, callback)]

(* ------------------------------ Verifier ------------------------------- *)

new(t) ==
    [transcript |-> r1cs_domain_sep(t),
     num_vars |-> 0,
     V |-> <<>>,
     constraints |-> <<>>,
     deferred_constraints |-> <<>>,
     pending_multiplier |-> None,
     calls |-> <<>>]

\* commit that reads the length of V after the push
commit_IndexAfterPush(self, commitment) ==
    LET i == Len(self.V) + 1
    IN  [self |-> [self EXCEPT !.V = Append(@, commitment),
                               !.transcript = append_point(@, "V", commitment)],
         ret |-> <<Committed(i)>>]

commit(self, commitment) ==
    LET i == Len(self.V)
    IN  [self |-> [self EXCEPT !.V = Append(@, commitment),
                               !.transcript = append_point(@, "V", commitment)],
         ret |-> <<Committed(i)>>]

(* ------------------------- history of the calls ------------------------ *)

Call(op, ret, randomizing) == [op |-> op, ret |-> ret, randomizing |-> randomizing]

Logged(r, op, randomizing) ==
    [r.self EXCEPT !.calls = Append(@, Call(op, r.ret, randomizing))]

(* --------------- impl ConstraintSystem for RandomizingVerifier ---------- *)

\* The wrapper around the verifier that a delegated call leaves.
Wrapped(r) == [self |-> [verifier |-> r.self], ret |-> r.ret]

Randomizing_multiply(wrapped, left, right) ==
    Wrapped(multiply(wrapped.verifier, left, right))

Randomizing_allocate(wrapped) ==
    Wrapped(allocate(wrapped.verifier))

Randomizing_allocate_multiplier(wrapped) ==
    Wrapped(allocate_multiplier(wrapped.verifier))

Randomizing_constrain(wrapped, lc) ==
    [self |-> [verifier |-> constrain(wrapped.verifier, lc)], ret |-> <<>>]

Randomizing_challenge_scalar(wrapped, label) ==
    [self |-> [verifier |-> [wrapped.verifier EXCEPT
                                !.transcript = challenge_scalar(@, label)]],
     ret |-> <<>>]

(* ---------------------------- the callbacks ---------------------------- *)

(* A callback given to specify_randomized_constraints is a closure of the   *)
(* caller: a sequence of calls on the RandomizingVerifier it receives,      *)
(* followed by the Result it returns.                                       *)
Step(op, left, right, label) == [op |-> op, left |-> left, right |-> right, label |-> label]

Closure(body, result) == [body |-> body, result |-> result]

LoggedWrapped(r, op) ==
    [verifier |-> Logged([self |-> r.self.verifier, ret |-> r.ret], op, TRUE)]

ApplyStep(wrapped, step) ==
    LoggedWrapped(
        CASE step.op = "multiply" ->
               Randomizing_multiply(wrapped, step.left, step.right)
          [] step.op = "allocate" ->
               Randomizing_allocate(wrapped)
          [] step.op = "allocate_multiplier" ->
               Randomizing_allocate_multiplier(wrapped)
          [] step.op = "constrain" ->
               Randomizing_constrain(wrapped, step.left)
          [] step.op = "challenge_scalar" ->
               Randomizing_challenge_scalar(wrapped, step.label),
        step.op)

RECURSIVE RunBody(_, _)
RunBody(wrapped, body) ==
    IF body = <<>>
    THEN wrapped
    ELSE RunBody(ApplyStep(wrapped, Head(body)), Tail(body))

\* The entry of calls that records that a callback was entered.
Invoked(callback) == [tag |-> "callback", body |-> callback.body, result |-> callback.result]

Entered(wrapped, callback) ==
    [verifier |-> [wrapped.verifier EXCEPT
                      !.calls = Append(@, Call("callback", <<Invoked(callback)>>, TRUE))]]

\* callback(&mut wrapped_self)
Invoke(callback, wrapped) ==
    [wrapped |-> RunBody(Entered(wrapped, callback), callback.body),
     result |-> callback.result]

(* ------------------- create_randomized_constraints --------------------- *)

\* A loop that takes the callbacks from the end of the vector.
RECURSIVE Drain_LastFirst(_, _, _)
Drain_LastFirst(callbacks, wrapped, invoked) ==
    IF callbacks = <<>>
    THEN [result |-> Ok, wrapped |-> wrapped, invoked |-> invoked]
    ELSE LET Then(c) ==
                 IF c.result # Ok
                 THEN [result |-> c.result, wrapped |-> c.wrapped, invoked |-> invoked + 1]
                 ELSE Drain_LastFirst(SubSeq(callbacks, 1, Len(callbacks) - 1),
                                      c.wrapped, invoked + 1)
         IN  Then(Invoke(callbacks[Len(callbacks)], wrapped))

\* for callback in callbacks.drain(..) { callback(&mut wrapped_self)?; }
RECURSIVE Drain(_, _, _)
Drain(callbacks, wrapped, invoked) ==
    IF callbacks = <<>>
    THEN [result |-> Ok, wrapped |-> wrapped, invoked |-> invoked]
    ELSE LET Then(c) ==
                 IF c.result # Ok
                 THEN [result |-> c.result, wrapped |-> c.wrapped, invoked |-> invoked + 1]
                 ELSE Drain(Tail(callbacks), c.wrapped, invoked + 1)
         IN  Then(Invoke(Head(callbacks), wrapped))

\* Ok(wrapped_self.verifier), or the error of the callback that failed
Unwrapped(d) == [result |-> d.result, self |-> d.wrapped.verifier, invoked |-> d.invoked]

\* create_randomized_constraints that keeps the pending half-gate of phase 1.
create_randomized_constraints_KeepPending(self) ==
    IF Len(self.deferred_constraints) = 0
    THEN [result |-> Ok,
          self |-> [self EXCEPT !.transcript = r1cs_1phase_domain_sep(@)],
          invoked |-> 0]
    ELSE Unwrapped(
           Drain(self.deferred_constraints,
                 [verifier |-> [self EXCEPT !.transcript = r1cs_2phase_domain_sep(@),
                                            !.deferred_constraints = <<>>]],
                 0))

\* create_randomized_constraints that appends the domain separator after the callbacks ran.
create_randomized_constraints_SeparatorLast(self) ==
    IF Len(self.deferred_constraints) = 0
    THEN [result |-> Ok,
          self |-> [self EXCEPT !.pending_multiplier = None,
                                !.transcript = r1cs_1phase_domain_sep(@)],
          invoked |-> 0]
    ELSE LET Then(u) ==
                 [u EXCEPT !.self.transcript = r1cs_2phase_domain_sep(@)]
         IN  Then(Unwrapped(
                    Drain(self.deferred_constraints,
                          [verifier |-> [self EXCEPT !.pending_multiplier = None,
                                                     !.deferred_constraints = <<>>]],
                          0)))

create_randomized_constraints(self) ==
    IF Len(self.deferred_constraints) = 0
    THEN [result |-> Ok,
          self |-> [self EXCEPT !.pending_multiplier = None,
                                !.transcript = r1cs_1phase_domain_sep(@)],
          invoked |-> 0]
    ELSE Unwrapped(
           Drain(self.deferred_constraints,
                 [verifier |-> [self EXCEPT !.pending_multiplier = None,
                                            !.transcript = r1cs_2phase_domain_sep(@),
                                            !.deferred_constraints = <<>>]],
                 0))

(* ------------------------ proofs and generators ------------------------ *)

InnerProductProof(L_vec, R_vec, a, b) == [L_vec |-> L_vec, R_vec |-> R_vec, a |-> a, b |-> b]

\* BulletproofGens: only its capacity is read here.
BulletproofGens(gens_capacity) == [gens_capacity |-> gens_capacity]

\* usize::next_power_of_two: the smallest power of two >= n (1 for n = 0).
RECURSIVE PowerOfTwoFrom(_, _)
PowerOfTwoFrom(n, p) == IF p >= n THEN p ELSE PowerOfTwoFrom(n, 2 * p)

next_power_of_two(n) == PowerOfTwoFrom(n, 1)

RECURSIVE Pow2(_)
Pow2(k) == IF k = 0 THEN 1 ELSE 2 * Pow2(k - 1)

(* The inner-product sub-verifier (its code is outside src/): given n and   *)
(* the transcript it appends each L_i, R_i and draws a challenge after each *)
(* pair; a proof that does not hold log2(n) pairs is refused.               *)
RECURSIVE ipp_rounds(_, _, _)
ipp_rounds(ipp, i, t) ==
    IF i > Len(ipp.L_vec)
    THEN t
    ELSE ipp_rounds(ipp, i + 1,
            challenge_scalar(
                append_point(append_point(t, "L", ipp.L_vec[i]), "R", ipp.R_vec[i]),
                "u"))

ipp_verification_scalars(ipp, n, t) ==
    IF Pow2(Len(ipp.L_vec)) # n \/ Len(ipp.R_vec) # Len(ipp.L_vec)
    THEN [ok |-> FALSE, t |-> t]
    ELSE [ok |-> TRUE, t |-> ipp_rounds(ipp, 1, t)]

(* -------------------------- flattened_constraints ---------------------- *)

\* The indexing wL[*i], wR[*i], wO[*i] (length n) and wV[*i] (length m) of
\* flattened_constraints stays inside the vectors.
TermInRange(term, n, m) ==
    LET var == term[1]
    IN  CASE IsMultiplier(var) -> var.i < n
          [] var.tag = "Committed" -> var.i < m
          [] OTHER -> TRUE

flattened_constraints_in_range(self) ==
    \A q \in 1 .. Len(self.constraints) :
        \A k \in 1 .. Len(self.constraints[q]) :
            TermInRange(self.constraints[q][k], self.num_vars, Len(self.V))

\* vec![Fr::zero(); n]
Zeros(n) == [i \in 1 .. n |-> 0]

\* w[*i] += x  (the vector is indexed from 0 in the code, from 1 here)
AddAt(w, i, x) == [w EXCEPT ![i + 1] = Add(@, x)]

\* match var { .. }: one term of a constraint, with the weight exp_z
flatten_term(w, term, exp_z) ==
    LET var == term[1]
        coeff == term[2]
    IN  CASE var.tag = "MultiplierLeft" ->
               [w EXCEPT !.wL = AddAt(@, var.i, Mul(exp_z, coeff))]
          [] var.tag = "MultiplierRight" ->
               [w EXCEPT !.wR = AddAt(@, var.i, Mul(exp_z, coeff))]
          [] var.tag = "MultiplierOutput" ->
               [w EXCEPT !.wO = AddAt(@, var.i, Mul(exp_z, coeff))]
          [] var.tag = "Committed" ->
               [w EXCEPT !.wV = AddAt(@, var.i, Neg(Mul(exp_z, coeff)))]
          [] var.tag = "One" ->
               [w EXCEPT !.wc = Add(@, Neg(Mul(exp_z, coeff)))]

\* for (var, coeff) in &lc.terms { .. }
RECURSIVE flatten_terms(_, _, _)
flatten_terms(w, terms, exp_z) ==
    IF terms = <<>>
    THEN w
    ELSE flatten_terms(flatten_term(w, Head(terms), exp_z), Tail(terms), exp_z)

\* for lc in self.constraints.iter() { ..; exp_z *= z; }
RECURSIVE flatten_constraints(_, _, _, _)
flatten_constraints(w, constraints, exp_z, z) ==
    IF constraints = <<>>
    THEN w
    ELSE flatten_constraints(flatten_terms(w, Head(constraints), exp_z),
                             Tail(constraints), Mul(exp_z, z), z)

\* The weights before the loop.
ZeroWeights(self) ==
    [wL |-> Zeros(self.num_vars), wR |-> Zeros(self.num_vars),
     wO |-> Zeros(self.num_vars), wV |-> Zeros(Len(self.V)), wc |-> 0]

\* The loop started with exp_z = 1 instead of z.
flattened_constraints_FromOne(self, z) ==
    flatten_constraints(ZeroWeights(self), self.constraints, 1, z)

\* (wL, wR, wO, wV, wc), for constraints whose indices are in range
flattened_constraints(self, z) ==
    flatten_constraints(ZeroWeights(self), self.constraints, z, z)

(* ------------------------------- exp_iter ------------------------------ *)

FrExp(x, next_exp_x) == [x |-> x, next_exp_x |-> next_exp_x]

\* The iterator started at x instead of one.
exp_iter_FromX(x) == FrExp(x, x)

exp_iter(x) == FrExp(x, 1)

\* FrExp::next: the iterator after the call, and the item it returned
FrExp_next(self) ==
    [self |-> [self EXCEPT !.next_exp_x = Mul(@, self.x)], item |-> self.next_exp_x]

\* A Rust panic (index out of bounds, unwrap of None): no Result is returned.
Panic(msg) == [kind |-> "Panic", msg |-> msg]

(* --------------------------- verification_scalars ---------------------- *)

\* transcript.validate_and_append_point(label, point)?; for each pair in turn.
RECURSIVE validate_and_append_points(_, _)
validate_and_append_points(t, pairs) ==
    IF pairs = <<>>
    THEN [ok |-> TRUE, t |-> t]
    ELSE LET Then(r) == IF ~r.ok THEN r ELSE validate_and_append_points(r.t, Tail(pairs))
         IN  Then(validate_and_append_point(t, Head(pairs)[1], Head(pairs)[2]))

(* verification_scalars is a sequence of steps, each of which may return    *)
(* early.  A step takes and gives a record of: the Result so far (Running    *)
(* while no return was made), the verifier, n1, whether y was drawn, and the *)
(* clone of the transcript that r was drawn from.                            *)
Running == [kind |-> "Running", msg |-> ""]

Returned(result, self, n1, drew_y, clone) ==
    [result |-> result, self |-> self, n1 |-> n1, invoked |-> 0, drew_y |-> drew_y,
     clone |-> clone]

\* append m; let n1 = num_vars; validate and append A_I1, A_O1, S1
vs_phase1_commitments(self, proof) ==
    LET Then(p) ==
            Returned(IF p.ok THEN Running ELSE VerificationError,
                     [self EXCEPT !.transcript = p.t], self.num_vars, FALSE, <<>>)
    IN  Then(validate_and_append_points(
                 append_u64(self.transcript, "m", Len(self.V)),
                 << <<"A_I1", proof.A_I1>>, <<"A_O1", proof.A_O1>>, <<"S1", proof.S1>> >>))

\* create_randomized_constraints().map_err(|_| VerificationError)?
vs_randomized_constraints_MapErr(c) ==
    IF c.result # Running
    THEN c
    ELSE LET Then(crc) ==
                 [c EXCEPT !.self = crc.self,
                           !.invoked = crc.invoked,
                           !.result = IF crc.result = Ok THEN Running
                                      ELSE VerificationError]
         IN  Then(create_randomized_constraints(c.self))

\* self = self.create_randomized_constraints()?
vs_randomized_constraints(c) ==
    IF c.result # Running
    THEN c
    ELSE LET Then(crc) ==
                 [c EXCEPT !.self = crc.self,
                           !.invoked = crc.invoked,
                           !.result = IF crc.result = Ok THEN Running ELSE crc.result]
         IN  Then(create_randomized_constraints(c.self))

\* The capacity check made against the size of the first phase.
vs_generators_Phase1Size(c, bp_gens) ==
    IF c.result # Running
    THEN c
    ELSE IF bp_gens.gens_capacity < next_power_of_two(c.n1)
         THEN [c EXCEPT !.result = InvalidGeneratorsLength]
         ELSE c

\* if bp_gens.gens_capacity < padded_n { return Err(InvalidGeneratorsLength) }
vs_generators(c, bp_gens) ==
    IF c.result # Running
    THEN c
    ELSE IF bp_gens.gens_capacity < next_power_of_two(c.self.num_vars)
         THEN [c EXCEPT !.result = InvalidGeneratorsLength]
         ELSE c

\* draw z, y after A_I2, A_O2, S2
vs_phase2_commitments_zFirst(c, proof, y) ==
    IF c.result # Running
    THEN c
    ELSE [c EXCEPT !.drew_y = TRUE,
                   !.self.transcript =
                       Append(
                         challenge_scalar(
                           append_point(append_point(append_point(@,
                               "A_I2", proof.A_I2), "A_O2", proof.A_O2), "S2", proof.S2),
                           "z"),
                         Entry("challenge", "y", y))]

\* append A_I2, A_O2, S2; draw y, z
vs_phase2_commitments(c, proof, y) ==
    IF c.result # Running
    THEN c
    ELSE [c EXCEPT !.drew_y = TRUE,
                   !.self.transcript =
                       challenge_scalar(
                         Append(
                           append_point(append_point(append_point(@,
                               "A_I2", proof.A_I2), "A_O2", proof.A_O2), "S2", proof.S2),
                           Entry("challenge", "y", y)),
                         "z")]

\* T_1, T_3, T_4, T_5, T_6 appended without validation
vs_T_commitments_NoValidation(c, proof) ==
    IF c.result # Running
    THEN c
    ELSE [c EXCEPT !.self.transcript =
                       append_point(append_point(append_point(append_point(append_point(@,
                           "T_1", proof.T_1), "T_3", proof.T_3), "T_4", proof.T_4),
                           "T_5", proof.T_5), "T_6", proof.T_6)]

\* validate and append T_1, T_3, T_4, T_5, T_6
vs_T_commitments(c, proof) ==
    IF c.result # Running
    THEN c
    ELSE LET Then(p) ==
                 [c EXCEPT !.self.transcript = p.t,
                           !.result = IF p.ok THEN Running ELSE VerificationError]
         IN  Then(validate_and_append_points(c.self.transcript,
                      << <<"T_1", proof.T_1>>, <<"T_3", proof.T_3>>, <<"T_4", proof.T_4>>,
                         <<"T_5", proof.T_5>>, <<"T_6", proof.T_6>> >>))

\* draw u, x; append t_x, t_x_blinding, e_blinding; draw w
vs_revealed_scalars(c, proof) ==
    IF c.result # Running
    THEN c
    ELSE [c EXCEPT !.self.transcript =
                       challenge_scalar(
                         append_scalar(append_scalar(append_scalar(
                           challenge_scalar(challenge_scalar(@, "u"), "x"),
                           "t_x", proof.t_x), "t_x_blinding", proof.t_x_blinding),
                           "e_blinding", proof.e_blinding),
                         "w")]

\* let (wL, wR, wO, wV, wc) = self.flattened_constraints(&z)
vs_flatten(c) ==
    IF c.result # Running
    THEN c
    ELSE IF flattened_constraints_in_range(c.self)
         THEN c
         ELSE [c EXCEPT !.result = Panic("index out of bounds")]

\* proof.ipp_proof.verification_scalars(padded_n, transcript)
\*     .map_err(|_| R1CSError::VerificationError)?
vs_inner_product(c, proof) ==
    IF c.result # Running
    THEN c
    ELSE LET Then(ipp) ==
                 [c EXCEPT !.self.transcript = ipp.t,
                           !.result = IF ipp.ok THEN Running ELSE VerificationError]
         IN  Then(ipp_verification_scalars(proof.ipp_proof,
                      next_power_of_two(c.self.num_vars), c.self.transcript))

\* r drawn from the transcript itself
vs_scalars_NoClone(c, y) ==
    IF c.result # Running
    THEN c
    ELSE IF y = 0
         THEN [c EXCEPT !.result = Panic("unwrap of None")]
         ELSE [c EXCEPT !.result = Ok,
                        !.self.transcript = challenge_scalar(@, "r"),
                        !.clone = challenge_scalar(c.self.transcript, "r")]

\* y.inverse().unwrap(); ...; r drawn from a clone of the transcript; Ok((self, scalars))
vs_scalars(c, y) ==
    IF c.result # Running
    THEN c
    ELSE IF y = 0
         THEN [c EXCEPT !.result = Panic("unwrap of None")]
         ELSE [c EXCEPT !.result = Ok,
                        !.clone = challenge_scalar(c.self.transcript, "r")]

verification_scalars(self, proof, bp_gens, y) ==
    vs_scalars(
      vs_inner_product(
        vs_flatten(
          vs_revealed_scalars(
            vs_T_commitments(
              vs_phase2_commitments(
                vs_generators(
                  vs_randomized_constraints(
                    vs_phase1_commitments(self, proof)),
                  bp_gens),
                proof, y),
              proof),
            proof)),
        proof),
      y)

(* ------------------- the scalars verification_scalars returns ---------- *)

(* The challenges y, z, u, x, w, r are hashes of the transcript, and u_sq,   *)
(* u_inv_sq, s are computed by the inner-product sub-verifier from its own   *)
(* challenges: they are inputs here, a record ch of the six challenges and a *)
(* record ipp of the three vectors.                                          *)

\* Fr::inverse: None for zero
inverse(y) == IF y = 0 THEN None ELSE Some(CHOOSE v \in Fr : Mul(y, v) = 1)

Min(a, b) == IF a < b THEN a ELSE b

\* Iterator::take
take(s, k) == SubSeq(s, 1, Min(k, Len(s)))

\* iter::repeat(x).take(k)
repeat(x, k) == [i \in 1 .. k |-> x]

\* Iterator::rev
rev(s) == [i \in 1 .. Len(s) |-> s[Len(s) + 1 - i]]

\* util::exp_iter(x).take(k).collect()
RECURSIVE take_collect(_, _)
take_collect(iter, k) ==
    IF k = 0
    THEN <<>>
    ELSE LET Then(n) == <<n.item>> \o take_collect(n.self, k - 1)
         IN  Then(FrExp_next(iter))

\* wR.into_iter().zip(y_inv_vec.iter()).map(..).chain(iter::repeat(Fr::zero()).take(pad))
yneg_wR(wR, y_inv_vec, pad) ==
    [i \in 1 .. Min(Len(wR), Len(y_inv_vec)) |-> Mul(wR[i], y_inv_vec[i])] \o repeat(0, pad)

\* inner_product(a, b): the sum of the a[i] * b[i]
RECURSIVE inner_product(_, _)
inner_product(a, b) ==
    IF a = <<>> \/ b = <<>>
    THEN 0
    ELSE Add(Mul(Head(a), Head(b)), inner_product(Tail(a), Tail(b)))

\* iter::repeat(Fr::one()).take(n1).chain(iter::repeat(u).take(n2 + pad))
u_for_g(n1, n2, pad, u) == repeat(1, n1) \o repeat(u, n2 + pad)

\* g_scalars with the coefficient u for every entry
g_scalars_AllU(yneg, u_or_1, s, padded_n, x, a) ==
    LET s_i == take(s, padded_n)
    IN  [i \in 1 .. Min(Len(yneg), Min(Len(u_or_1), Len(s_i))) |->
            Mul(u_or_1[Len(u_or_1)], Add(Mul(x, yneg[i]), Neg(Mul(a, s_i[i]))))]

\* yneg_wR.iter().zip(u_for_g).zip(s.iter().take(padded_n)).map(..)
g_scalars(yneg, u_or_1, s, padded_n, x, a) ==
    LET s_i == take(s, padded_n)
    IN  [i \in 1 .. Min(Len(yneg), Min(Len(u_or_1), Len(s_i))) |->
            Mul(u_or_1[i], Add(Mul(x, yneg[i]), Neg(Mul(a, s_i[i]))))]

\* y_inv_vec.iter().zip(u_for_h).zip(s.iter().rev().take(padded_n))
\*     .zip(wL .. chain zeros).zip(wO .. chain zeros).map(..)
h_scalars(y_inv_vec, u_or_1, s, padded_n, wL, wO, pad, x, b) ==
    LET s_i_inv == take(rev(s), padded_n)
        wLi == wL \o repeat(0, pad)
        wOi == wO \o repeat(0, pad)
        len == Min(Len(y_inv_vec), Min(Len(u_or_1), Min(Len(s_i_inv),
                                                       Min(Len(wLi), Len(wOi)))))
    IN  [i \in 1 .. len |->
            Mul(u_or_1[i],
                Add(Mul(y_inv_vec[i],
                        Add(Add(Mul(x, wLi[i]), wOi[i]), Neg(Mul(b, s_i_inv[i])))),
                    Neg(1)))]

\* [r * x, rxx * x, rxx * xx, rxx * xxx, rxx * xx * xx]
T_scalars(r, x) ==
    LET xx == Mul(x, x)
        rxx == Mul(r, xx)
        xxx == Mul(x, xx)
    IN  <<Mul(r, x), Mul(rxx, x), Mul(rxx, xx), Mul(rxx, xxx), Mul(Mul(rxx, xx), xx)>>

\* What lines 410-469 compute for the verifier self that the callbacks left,
\* n1 gates of the first phase, and y # 0: the vectors and the Vec<Fr> returned.
scalars(self, proof, n1, ch, ipp) ==
    LET n == self.num_vars
        n2 == n - n1
        padded_n == next_power_of_two(self.num_vars)
        pad == padded_n - n
        w == flattened_constraints(self, ch.z)
        a == proof.ipp_proof.a
        b == proof.ipp_proof.b
        y_inv == inverse(ch.y).i
        y_inv_vec == take_collect(exp_iter(y_inv), padded_n)
        yneg == yneg_wR(w.wR, y_inv_vec, pad)
        delta == inner_product(SubSeq(yneg, 1, n), w.wL)
        u_or_1 == u_for_g(n1, n2, pad, ch.u)
        g == g_scalars(yneg, u_or_1, ipp.s, padded_n, ch.x, a)
        h == h_scalars(y_inv_vec, u_or_1, ipp.s, padded_n, w.wL, w.wO, pad, ch.x, b)
        x == ch.x
        xx == Mul(x, x)
        rxx == Mul(ch.r, xx)
        xxx == Mul(x, xx)
    IN  [g_scalars |-> g,
         h_scalars |-> h,
         scalars |->
            << Add(Mul(ch.w, Add(proof.t_x, Neg(Mul(a, b)))),
                   Mul(ch.r, Add(Mul(xx, Add(w.wc, delta)), Neg(proof.t_x)))),
               Add(Neg(proof.e_blinding), Neg(Mul(ch.r, proof.t_x_blinding))) >>
            \o g
            \o h
            \o <<x, xx, xxx, Mul(ch.u, x), Mul(ch.u, xx), Mul(ch.u, xxx)>>
            \o [i \in 1 .. Len(w.wV) |-> Mul(w.wV[i], rxx)]
            \o T_scalars(ch.r, x)
            \o ipp.u_sq
            \o ipp.u_inv_sq]

(* ---------------------------------- verify ----------------------------- *)

(* The multiscalar multiplication runs on the curve, outside this code:     *)
(* mega_check is the point it evaluates to.                                 *)
\* verification_scalars(..).map_err(|_| VerificationError)?
verify_and_return_transcript_MapErr(self, proof, bp_gens, y, mega_check) ==
    LET Then(vs) ==
            IF vs.result # Ok
            THEN [result |-> VerificationError, vs |-> vs]
            ELSE IF mega_check # Identity
                 THEN [result |-> VerificationError, vs |-> vs]
                 ELSE [result |-> Ok, vs |-> vs]
    IN  Then(verification_scalars(self, proof, bp_gens, y))

verify_and_return_transcript(self, proof, bp_gens, y, mega_check) ==
    LET Then(vs) ==
            IF vs.result # Ok
            THEN [result |-> vs.result, vs |-> vs]
            ELSE IF mega_check # Identity
                 THEN [result |-> VerificationError, vs |-> vs]
                 ELSE [result |-> Ok, vs |-> vs]
    IN  Then(verification_scalars(self, proof, bp_gens, y))

verify(self, proof, bp_gens, y, mega_check) ==
    verify_and_return_transcript(self, proof, bp_gens, y, mega_check)

(* ------------------------------ batch_verify --------------------------- *)

(* The locals of batch_verify.  returned is history: what each call of      *)
(* verification_scalars returned.  mega_checks[k] is the point that the     *)
(* scalars and points of instance k evaluate to; the batch multiplies the   *)
(* scalars of instance k by alphas[k] and adds them slot by slot, so its    *)
(* multiscalar multiplication evaluates to the sum of alphas[k] *           *)
(* mega_checks[k].                                                          *)
batch_start(instances, bp_gens) ==
    [pc |-> IF instances = <<>> THEN "msm" ELSE "scalars",
     bp_gens |-> bp_gens,
     max_n_padded |-> 0,
     verifiers |-> <<>>,
     returned |-> <<>>,
     mega_checks |-> <<>>,
     alphas |-> <<>>,
     multi_exp |-> Identity,
     result |-> Ok]

Max(a, b) == IF a > b THEN a ELSE b

\* The first loop with the error of an instance kept for later instead of returned.
batch_scalars_NoAbort(b, instance, y, mega_check, last) ==
    LET Then(v) ==
            [b EXCEPT !.pc = IF last THEN "fold" ELSE "scalars",
                      !.max_n_padded = Max(@, next_power_of_two(v.self.num_vars)),
                      !.verifiers = Append(@, v.self),
                      !.returned = Append(@, v),
                      !.mega_checks = Append(@, mega_check),
                      !.result = IF v.result # Ok THEN v.result ELSE @]
    IN  Then(verification_scalars(instance.verifier, instance.proof, b.bp_gens, y))

\* for (verifier, proof) in instances { verifier.verification_scalars(proof, bp_gens)?; .. }
batch_scalars(b, instance, y, mega_check, last) ==
    LET Then(v) ==
            IF v.result # Ok
            THEN [b EXCEPT !.pc = "done",
                           !.returned = Append(@, v),
                           !.result = v.result]
            ELSE [b EXCEPT !.pc = IF last THEN "fold" ELSE "scalars",
                           !.max_n_padded = Max(@, next_power_of_two(v.self.num_vars)),
                           !.verifiers = Append(@, v.self),
                           !.returned = Append(@, v),
                           !.mega_checks = Append(@, mega_check)]
    IN  Then(verification_scalars(instance.verifier, instance.proof, b.bp_gens, y))

\* let alpha = Fr::rand(prng); all_scalars[..] += alpha * s; all_elems.push(..)
batch_fold(b, alpha) ==
    [b EXCEPT !.pc = IF Len(b.alphas) + 1 = Len(b.verifiers) THEN "msm" ELSE "fold",
              !.alphas = Append(@, alpha),
              !.multi_exp = Add(@, Mul(alpha, b.mega_checks[Len(b.alphas) + 1]))]

\* if !multi_exp.is_zero() { Err(VerificationError) } else { Ok(()) }
batch_msm(b) ==
    [b EXCEPT !.pc = "done",
              !.result = IF b.multi_exp # Identity THEN VerificationError ELSE Ok]

(* ------------------ the points and the batch accumulator --------------- *)

(* A point of a multiscalar multiplication is named by where the code takes  *)
(* it from: a generator (B, B_blinding, G[i], H[i]), a field of the proof,   *)
(* V[i] of the verifier, L_vec[i] or R_vec[i] of the inner-product proof.    *)
Elem(name, i) == [name |-> name, i |-> i]

\* gens.G(n): the first n generators G
G(n) == [i \in 1 .. n |-> Elem("G", i - 1)]

\* gens.H(n): the first n generators H
H(n) == [i \in 1 .. n |-> Elem("H", i - 1)]

\* A_I1, A_O1, S1, A_I2, A_O2, S2, V, T_1, T_3, T_4, T_5, T_6, L_vec, R_vec
proof_elems(self, proof) ==
    << Elem("A_I1", 0), Elem("A_O1", 0), Elem("S1", 0),
       Elem("A_I2", 0), Elem("A_O2", 0), Elem("S2", 0) >>
    \o [i \in 1 .. Len(self.V) |-> Elem("V", i - 1)]
    \o << Elem("T_1", 0), Elem("T_3", 0), Elem("T_4", 0), Elem("T_5", 0), Elem("T_6", 0) >>
    \o [i \in 1 .. Len(proof.ipp_proof.L_vec) |-> Elem("L_vec", i - 1)]
    \o [i \in 1 .. Len(proof.ipp_proof.R_vec) |-> Elem("R_vec", i - 1)]

\* The point vector with the generators taken up to num_vars instead of padded_n.
verify_elems_Unpadded(self, proof) ==
    << Elem("B", 0), Elem("B_blinding", 0) >>
    \o G(self.num_vars)
    \o H(self.num_vars)
    \o proof_elems(self, proof)

\* The point vector that verify_and_return_transcript gives to the
\* multiscalar multiplication.
verify_elems(self, proof) ==
    LET padded_n == next_power_of_two(self.num_vars)
    IN  << Elem("B", 0), Elem("B_blinding", 0) >>
        \o G(padded_n)
        \o H(padded_n)
        \o proof_elems(self, proof)

\* all_scalars and all_elems of batch_verify before its second loop
accumulator(max_n_padded) ==
    [all_scalars |-> repeat(0, 2 * max_n_padded + 2),
     all_elems |-> << Elem("B", 0), Elem("B_blinding", 0) >>
                   \o G(max_n_padded) \o H(max_n_padded)]

\* for (i, s) in slice.iter().enumerate() { all_scalars[offset + i] += *s; }
RECURSIVE add_slice(_, _, _, _)
add_slice(all_scalars, offset, slice, i) ==
    IF i >= Len(slice)
    THEN all_scalars
    ELSE add_slice(AddAt(all_scalars, offset + i, slice[i + 1]), offset, slice, i + 1)

\* One pass of the second loop with the h values put at the end of the H block.
accumulate_RightAligned(acc, max_n_padded, verifier, proof, verification_scalars_k, alpha) ==
    LET scaled_scalars ==
            [i \in 1 .. Len(verification_scalars_k) |-> Mul(alpha, verification_scalars_k[i])]
        padded_n == next_power_of_two(verifier.num_vars)
        b_values == AddAt(AddAt(acc.all_scalars, 0, scaled_scalars[1]), 1, scaled_scalars[2])
        g_values == add_slice(b_values, 2 + max_n_padded - padded_n,
                              SubSeq(scaled_scalars, 3, 2 + padded_n), 0)
        h_values == add_slice(g_values, 2 + 2 * max_n_padded - padded_n,
                              SubSeq(scaled_scalars, 3 + padded_n, 2 + 2 * padded_n), 0)
    IN  [all_scalars |->
            h_values \o SubSeq(scaled_scalars, 3 + 2 * padded_n, Len(scaled_scalars)),
         all_elems |-> acc.all_elems \o proof_elems(verifier, proof)]

\* One pass of the second loop of batch_verify: the scalars of an instance,
\* multiplied by alpha, added to the shared slots and pushed after them, and
\* the points of the instance pushed.
accumulate(acc, max_n_padded, verifier, proof, verification_scalars_k, alpha) ==
    LET scaled_scalars ==
            [i \in 1 .. Len(verification_scalars_k) |-> Mul(alpha, verification_scalars_k[i])]
        padded_n == next_power_of_two(verifier.num_vars)
        b_values == AddAt(AddAt(acc.all_scalars, 0, scaled_scalars[1]), 1, scaled_scalars[2])
        g_values == add_slice(b_values, 2,
                              SubSeq(scaled_scalars, 3, 2 + padded_n), 0)
        h_values == add_slice(g_values, 2 + max_n_padded,
                              SubSeq(scaled_scalars, 3 + padded_n, 2 + 2 * padded_n), 0)
    IN  [all_scalars |->
            h_values \o SubSeq(scaled_scalars, 3 + 2 * padded_n, Len(scaled_scalars)),
         all_elems |-> acc.all_elems \o proof_elems(verifier, proof)]

(* ------------------------------- inputs -------------------------------- *)

CommitPoints == {1, 2}

LCSecret == << <<Committed(0), 1>> >>

LCGate == << <<MultiplierLeft(0), 1>>, <<One, 2>> >>

LinearCombinations == {LCSecret, LCGate}

Closures ==
    { Closure(<<Step("allocate", <<>>, <<>>, "")>>, Ok),
      Closure(<<Step("challenge_scalar", <<>>, <<>>, "e"),
                Step("multiply", LCSecret, <<>>, "")>>, Ok),
      Closure(<<Step("allocate_multiplier", <<>>, <<>>, ""),
                Step("constrain", LCGate, <<>>, "")>>, GadgetError("a")),
      Closure(<<>>, GadgetError("b")),
      Closure(<<>>, VerificationError) }

PointFields == {"A_I1", "A_O1", "S1", "A_I2", "A_O2", "S2", "T_1", "T_3", "T_4", "T_5", "T_6"}

\* A proof whose points are all non-identity, with lg_n pairs in its inner-product proof.
R1CSProof(lg_n) ==
    [A_I1 |-> 1, A_O1 |-> 1, S1 |-> 1, A_I2 |-> 1, A_O2 |-> 1, S2 |-> 1,
     T_1 |-> 1, T_3 |-> 1, T_4 |-> 1, T_5 |-> 1, T_6 |-> 1,
     t_x |-> 1, t_x_blinding |-> 1, e_blinding |-> 1,
     ipp_proof |-> InnerProductProof([i \in 1 .. lg_n |-> 1], [i \in 1 .. lg_n |-> 2], 1, 1)]

\* The same with one point replaced by the identity.
WithIdentity(proof, f) == [proof EXCEPT ![f] = Identity]

Proofs ==
    { R1CSProof(lg_n) : lg_n \in 0 .. 2 }
        \cup { WithIdentity(R1CSProof(0), f) : f \in PointFields }

Generators == { BulletproofGens(1), BulletproofGens(4) }

\* The values the challenge y takes: zero, which has no inverse, and a unit.
Challenges == {0, 1}

\* The proofs and generators given to batch_verify.
BatchProofs == { R1CSProof(0), R1CSProof(1), WithIdentity(R1CSProof(0), "T_1") }

BatchGenerators == { BulletproofGens(0), BulletproofGens(1) }

(* ------------------------------- state --------------------------------- *)

VARIABLES
    transcript, constraints, num_vars, V, deferred_constraints, pending_multiplier,
    calls,          \* history: the constraint-system calls made on the verifier
    stage,          \* "phase1" while the circuit is built, "verified" after verify
    proof, bp_gens, \* the arguments of verify
    before,         \* history: the verifier as verify received it
    vs,             \* what verification_scalars returned
    mega_check,     \* the point the multiscalar multiplication evaluated to
    result,         \* what verify returned
    instances,      \* the (verifier, proof) pairs collected for batch_verify
    batch,          \* the locals of batch_verify
    flat,           \* z and what flattened_constraints(z) returned for the constraints
    fr_exp,         \* an iterator made by exp_iter, and the items taken from it
    sc              \* verify and batch_verify with the scalars and points they compute

cs_vars == <<transcript, constraints, num_vars, V, deferred_constraints,
             pending_multiplier, calls>>

verify_vars == <<stage, proof, bp_gens, before, vs, mega_check, result>>

batch_vars == <<instances, batch>>

util_vars == <<flat, fr_exp, sc>>

run_vars == <<verify_vars, batch_vars, util_vars>>

vars == <<cs_vars, run_vars>>

Self ==
    [transcript |-> transcript,
     num_vars |-> num_vars,
     V |-> V,
     constraints |-> constraints,
     deferred_constraints |-> deferred_constraints,
     pending_multiplier |-> pending_multiplier,
     calls |-> calls]

Becomes(self) ==
    /\ transcript' = self.transcript
    /\ num_vars' = self.num_vars
    /\ V' = self.V
    /\ constraints' = self.constraints
    /\ deferred_constraints' = self.deferred_constraints
    /\ pending_multiplier' = self.pending_multiplier
    /\ calls' = self.calls

NotRun == Returned(Ok, new(<<>>), 0, FALSE, <<>>)

NotFlattened == [done |-> FALSE, z |-> 0, w |-> ZeroWeights(new(<<>>))]

NoIterator == [iter |-> exp_iter(1), taken |-> <<>>]

\* The locals of verify and batch_verify: the instances given, what
\* verification_scalars returned for each, the challenges and inner-product
\* vectors it used, the vectors it computed, and the accumulator of the batch
\* after each pass of its second loop (accs[1] is the accumulator before it).
ScalarsState(pc, insts) ==
    [pc |-> pc, insts |-> insts, returned |-> <<>>, draws |-> <<>>,
     verification_scalars |-> <<>>, elems |-> <<>>, max_n_padded |-> 0,
     accs |-> <<>>, alphas |-> <<>>, result |-> Ok]

NoScalars == ScalarsState("none", <<>>)

NoBatch == [batch_start(<<>>, BulletproofGens(0)) EXCEPT !.pc = "collect"]

Init ==
    /\ transcript = new(<<>>).transcript
    /\ num_vars = new(<<>>).num_vars
    /\ V = new(<<>>).V
    /\ constraints = new(<<>>).constraints
    /\ deferred_constraints = new(<<>>).deferred_constraints
    /\ pending_multiplier = new(<<>>).pending_multiplier
    /\ calls = <<>>
    /\ stage = "phase1"
    /\ proof = R1CSProof(0)
    /\ bp_gens = BulletproofGens(0)
    /\ before = new(<<>>)
    /\ vs = NotRun
    /\ mega_check = Identity
    /\ result = Ok
    /\ instances = <<>>
    /\ batch = NoBatch
    /\ flat = NotFlattened
    /\ fr_exp = NoIterator
    /\ sc = NoScalars

(* ------------------------------ actions -------------------------------- *)

Building == stage = "phase1" /\ Len(calls) < MaxOps

Commit ==
    /\ Building
    /\ \E commitment \in CommitPoints :
          Becomes(Logged(commit(Self, commitment), "commit", FALSE))
    /\ UNCHANGED run_vars

Multiply ==
    /\ Building
    /\ \E left \in {LCSecret}, right \in {LCGate} :
          Becomes(Logged(multiply(Self, left, right), "multiply", FALSE))
    /\ UNCHANGED run_vars

Allocate ==
    /\ Building
    /\ Becomes(Logged(allocate(Self), "allocate", FALSE))
    /\ UNCHANGED run_vars

AllocateMultiplier ==
    /\ Building
    /\ Becomes(Logged(allocate_multiplier(Self), "allocate_multiplier", FALSE))
    /\ UNCHANGED run_vars

Constrain ==
    /\ Building
    /\ \E lc \in LinearCombinations :
          Becomes(Logged([self |-> constrain(Self, lc), ret |-> <<>>], "constrain", FALSE))
    /\ UNCHANGED run_vars

SpecifyRandomizedConstraints ==
    /\ Building
    /\ \E callback \in Closures :
          Becomes(Logged([self |-> specify_randomized_constraints(Self, callback),
                          ret |-> <<>>],
                         "specify_randomized_constraints", FALSE))
    /\ UNCHANGED run_vars

(* verify consumes the verifier.  The challenge y and the point the         *)
(* multiscalar multiplication evaluates to are any value, in the runs that   *)
(* reach them.                                                              *)
Verify ==
    /\ stage = "phase1"
    /\ \E pr \in Proofs, gens \in Generators :
        \E y \in (IF verification_scalars(Self, pr, gens, 1).drew_y
                  THEN Challenges ELSE {0}) :
          \E mega \in (IF verification_scalars(Self, pr, gens, y).result = Ok
                       THEN G1Affine ELSE {Identity}) :
            \E v \in {verify(Self, pr, gens, y, mega)} :
                /\ Becomes(v.vs.self)
                /\ stage' = "verified"
                /\ proof' = pr
                /\ bp_gens' = gens
                /\ before' = Self
                /\ vs' = v.vs
                /\ mega_check' = mega
                /\ result' = v.result
                /\ UNCHANGED <<batch_vars, util_vars>>

Next ==
    \/ Commit
    \/ Multiply
    \/ Allocate
    \/ AllocateMultiplier
    \/ Constrain
    \/ SpecifyRandomizedConstraints
    \/ Verify

Spec == Init /\ [][Next]_vars

(* ------------------------- batches of proofs --------------------------- *)

Collecting == stage = "phase1" /\ batch.pc = "collect"

\* The circuits given to batch_verify are built with at most MaxBatchOps calls.
BuildingInstance == Collecting /\ Len(calls) < MaxBatchOps

\* The verifier goes into the batch with a proof; the next one starts from new.
AddInstance ==
    /\ Collecting
    /\ Len(calls) <= MaxBatchOps
    /\ Len(instances) < MaxInstances
    /\ \E pr \in BatchProofs :
          instances' = Append(instances, [verifier |-> Self, proof |-> pr])
    /\ Becomes(new(<<>>))
    /\ UNCHANGED <<verify_vars, batch, util_vars>>

BatchVerify ==
    /\ Collecting
    /\ calls = <<>>
    /\ \E gens \in BatchGenerators : batch' = batch_start(instances, gens)
    /\ UNCHANGED <<cs_vars, verify_vars, instances, util_vars>>

BatchScalars ==
    /\ batch.pc = "scalars"
    /\ \E k \in {Len(batch.returned) + 1} :
        \E y \in (IF verification_scalars(instances[k].verifier, instances[k].proof,
                                          batch.bp_gens, 1).drew_y
                  THEN Challenges ELSE {0}) :
          \E mega \in (IF verification_scalars(instances[k].verifier, instances[k].proof,
                                               batch.bp_gens, y).result = Ok
                       THEN G1Affine ELSE {Identity}) :
              batch' = batch_scalars(batch, instances[k], y, mega, k = Len(instances))
    /\ UNCHANGED <<cs_vars, verify_vars, instances, util_vars>>

BatchFold ==
    /\ batch.pc = "fold"
    /\ \E alpha \in Fr : batch' = batch_fold(batch, alpha)
    /\ UNCHANGED <<cs_vars, verify_vars, instances, util_vars>>

BatchMSM ==
    /\ batch.pc = "msm"
    /\ batch' = batch_msm(batch)
    /\ UNCHANGED <<cs_vars, verify_vars, instances, util_vars>>

NextBatch ==
    \/ BuildingInstance /\ Commit
    \/ BuildingInstance /\ Multiply
    \/ BuildingInstance /\ Allocate
    \/ BuildingInstance /\ AllocateMultiplier
    \/ BuildingInstance /\ Constrain
    \/ BuildingInstance /\ SpecifyRandomizedConstraints
    \/ instances = <<>> /\ Collecting /\ Len(calls) <= MaxBatchOps /\ Verify
    \/ AddInstance
    \/ BatchVerify
    \/ BatchScalars
    \/ BatchFold
    \/ BatchMSM

SpecBatch == Init /\ [][NextBatch]_vars

(* ------------- flattened_constraints and exp_iter on their own ---------- *)

\* Linear combinations over two gates and one commitment: every kind of
\* variable, both indices, and variables that occur twice.
FlattenLCs ==
    { << <<MultiplierLeft(0), 1>>, <<MultiplierRight(1), 2>> >>,
      << <<MultiplierOutput(1), 2>>, <<MultiplierOutput(1), 2>> >>,
      << <<Committed(0), 1>>, <<One, 2>> >>,
      << <<MultiplierRight(0), 1>>, <<One, 1>>, <<MultiplierLeft(1), 2>>,
         <<MultiplierRight(0), 1>> >> }

ConstraintLists == UNION { [1 .. k -> FlattenLCs] : k \in 0 .. MaxConstraints }

\* A verifier with two gates and one commitment.
TwoGates == allocate_multiplier(allocate_multiplier(commit(new(<<>>), 1).self).self).self

\* The inputs: a verifier holding any of the constraint lists, and the
\* iterator exp_iter(x) for any x.  A run applies one of the two functions.
InitUtil ==
    /\ transcript = TwoGates.transcript
    /\ num_vars = TwoGates.num_vars
    /\ V = TwoGates.V
    /\ constraints \in ConstraintLists
    /\ deferred_constraints = TwoGates.deferred_constraints
    /\ pending_multiplier = TwoGates.pending_multiplier
    /\ calls = <<>>
    /\ stage = "phase1"
    /\ proof = R1CSProof(0)
    /\ bp_gens = BulletproofGens(0)
    /\ before = new(<<>>)
    /\ vs = NotRun
    /\ mega_check = Identity
    /\ result = Ok
    /\ instances = <<>>
    /\ batch = NoBatch
    /\ flat = NotFlattened
    /\ fr_exp \in { [iter |-> exp_iter(x), taken |-> <<>>] : x \in Fr }
    /\ sc = NoScalars

\* self.flattened_constraints(&z)
Flatten ==
    /\ ~flat.done
    /\ fr_exp.taken = <<>>
    /\ \E z \in Fr :
          flat' = [done |-> TRUE, z |-> z, w |-> flattened_constraints(Self, z)]
    /\ UNCHANGED <<cs_vars, verify_vars, batch_vars, fr_exp, sc>>

\* iter.next()
TakeNext ==
    /\ ~flat.done
    /\ Len(fr_exp.taken) < MaxItems
    /\ \E r \in {FrExp_next(fr_exp.iter)} :
          fr_exp' = [iter |-> r.self, taken |-> Append(fr_exp.taken, r.item)]
    /\ UNCHANGED <<cs_vars, verify_vars, batch_vars, flat, sc>>

NextUtil ==
    \/ Flatten
    \/ TakeNext

SpecUtil == InitUtil /\ [][NextUtil]_vars

(* ----------------- verify and batch_verify, with their vectors ---------- *)

\* The callbacks of the circuits below.
AllocateCallback == Closure(<<Step("allocate", <<>>, <<>>, "")>>, Ok)

MultiplyCallback ==
    Closure(<<Step("challenge_scalar", <<>>, <<>>, "e"),
              Step("multiply", LCSecret, <<>>, "")>>, Ok)

\* No gate and no commitment.
EmptyCircuit == new(<<>>)

\* One commitment and no gate.
CommitCircuit ==
    constrain(commit(new(<<>>), 1).self, << <<Committed(0), 1>>, <<One, 2>> >>)

\* Two commitments and one gate of the first phase.
GateCircuit ==
    constrain(multiply(commit(commit(new(<<>>), 1).self, 2).self, LCSecret, LCGate).self,
              << <<MultiplierRight(0), 1>>, <<MultiplierOutput(0), 2>> >>)

\* One gate of the first phase and two of the second: n1 = 1, n = 3, padded_n = 4.
TwoPhaseCircuit ==
    specify_randomized_constraints(
      specify_randomized_constraints(
        constrain(
          constrain(allocate_multiplier(commit(new(<<>>), 2).self).self,
                    << <<MultiplierLeft(0), 1>>, <<MultiplierRight(1), 2>>,
                       <<MultiplierLeft(2), 2>> >>),
          << <<MultiplierOutput(1), 2>>, <<MultiplierOutput(2), 1>>,
             <<MultiplierRight(2), 1>>, <<MultiplierRight(0), 1>> >>),
        AllocateCallback),
      MultiplyCallback)

\* The proofs: lg_n pairs in the inner-product proof, and a # b.
ScalarProof(lg_n) ==
    [R1CSProof(lg_n) EXCEPT !.ipp_proof.a = 2, !.t_x = 2, !.e_blinding = 2]

Instance(verifier, lg_n) == [verifier |-> verifier, proof |-> ScalarProof(lg_n)]

\* The batches given to batch_verify; verify is given the instance of a batch of one.
ScalarBatches ==
    { <<>>,
      <<Instance(EmptyCircuit, 0)>>,
      <<Instance(CommitCircuit, 0)>>,
      <<Instance(GateCircuit, 0)>>,
      <<Instance(GateCircuit, 1)>>,
      <<Instance(TwoPhaseCircuit, 2)>>,
      <<Instance(TwoPhaseCircuit, 2), Instance(GateCircuit, 0)>>,
      <<Instance(CommitCircuit, 0), Instance(TwoPhaseCircuit, 2)>>,
      <<Instance(GateCircuit, 0), Instance(TwoPhaseCircuit, 1)>> }

\* The challenges y, z, u, x, w, r of a run of verification_scalars.
Challenge(y, z, u, x, w, r) == [y |-> y, z |-> z, u |-> u, x |-> x, w |-> w, r |-> r]

ScalarChallenges ==
    { Challenge(2, 2, 2, 2, 1, 2),
      Challenge(1, 1, 0, 1, 2, 1),
      Challenge(2, 1, 1, 2, 1, 1),
      Challenge(0, 1, 1, 1, 1, 1) }

\* What the inner-product sub-verifier returns for a proof of lg_n pairs and
\* n = 2^lg_n: u_sq and u_inv_sq of lg_n entries, s of n entries.
IppOutputs(lg_n, n) ==
    { [u_sq |-> [i \in 1 .. lg_n |-> 1 + ((i + k) % 2)],
       u_inv_sq |-> [i \in 1 .. lg_n |-> 1 + ((i + k) % 2)],
       s |-> [i \in 1 .. n |-> (i + k) % FrModulus]] : k \in {0, 1} }

ScalarGenerators == BulletproofGens(4)

InitScalars ==
    /\ transcript = new(<<>>).transcript
    /\ num_vars = new(<<>>).num_vars
    /\ V = new(<<>>).V
    /\ constraints = new(<<>>).constraints
    /\ deferred_constraints = new(<<>>).deferred_constraints
    /\ pending_multiplier = new(<<>>).pending_multiplier
    /\ calls = <<>>
    /\ stage = "phase1"
    /\ proof = R1CSProof(0)
    /\ bp_gens = BulletproofGens(0)
    /\ before = new(<<>>)
    /\ vs = NotRun
    /\ mega_check = Identity
    /\ result = Ok
    /\ instances = <<>>
    /\ batch = NoBatch
    /\ flat = NotFlattened
    /\ fr_exp = NoIterator
    /\ sc \in { ScalarsState("start", insts) : insts \in ScalarBatches }

\* verification_scalars for the next instance, with the vector it returns:
\* sc with what the call returned pushed, or the error it returned instead.
WithScalars(v, inst, ch, ipp) ==
    IF v.result # Ok
    THEN [sc EXCEPT !.pc = "done", !.returned = Append(@, v), !.result = v.result]
    ELSE [sc EXCEPT !.returned = Append(@, v),
                    !.draws = Append(@, [ch |-> ch, ipp |-> ipp]),
                    !.verification_scalars =
                        Append(@, scalars(v.self, inst.proof, v.n1, ch, ipp)),
                    !.max_n_padded = Max(@, next_power_of_two(v.self.num_vars))]

\* verify_and_return_transcript: verification_scalars(..)?, then the points
\* of the multiscalar multiplication, whose value is any point.
VerifyWithScalars ==
    /\ sc.pc = "start"
    /\ Len(sc.insts) = 1
    /\ \E ch \in ScalarChallenges, mega \in G1Affine :
         \E v \in {verification_scalars(sc.insts[1].verifier, sc.insts[1].proof,
                                        ScalarGenerators, ch.y)} :
           \E ipp \in IppOutputs(Len(sc.insts[1].proof.ipp_proof.L_vec),
                                 next_power_of_two(v.self.num_vars)) :
             \E next \in {WithScalars(v, sc.insts[1], ch, ipp)} :
               sc' = IF v.result # Ok
                     THEN next
                     ELSE [next EXCEPT
                             !.pc = "verified",
                             !.elems = verify_elems(v.self, sc.insts[1].proof),
                             !.result = IF mega # Identity THEN VerificationError ELSE Ok]
    /\ UNCHANGED <<cs_vars, verify_vars, batch_vars, flat, fr_exp>>

\* batch_verify is entered; with no instance its loops do nothing.
BatchEnter ==
    /\ sc.pc = "start"
    /\ sc' = IF sc.insts = <<>>
             THEN [sc EXCEPT !.pc = "msm", !.accs = <<accumulator(0)>>]
             ELSE [sc EXCEPT !.pc = "scalars"]
    /\ UNCHANGED <<cs_vars, verify_vars, batch_vars, flat, fr_exp>>

\* One pass of the first loop; after the last, all_scalars and all_elems are set up.
BatchCollect ==
    /\ sc.pc = "scalars"
    /\ \E inst \in {sc.insts[Len(sc.returned) + 1]}, ch \in ScalarChallenges :
         \E v \in {verification_scalars(inst.verifier, inst.proof, ScalarGenerators, ch.y)} :
           \E ipp \in IppOutputs(Len(inst.proof.ipp_proof.L_vec),
                                 next_power_of_two(v.self.num_vars)) :
             \E next \in {WithScalars(v, inst, ch, ipp)} :
               sc' = IF v.result # Ok \/ Len(next.returned) < Len(sc.insts)
                     THEN next
                     ELSE [next EXCEPT !.pc = "fold",
                                       !.accs = <<accumulator(next.max_n_padded)>>]
    /\ UNCHANGED <<cs_vars, verify_vars, batch_vars, flat, fr_exp>>

\* One pass of the second loop.
BatchAccumulate ==
    /\ sc.pc = "fold"
    /\ \E alpha \in Fr, k \in {Len(sc.alphas) + 1} :
         sc' = [sc EXCEPT
                  !.pc = IF k = Len(sc.insts) THEN "msm" ELSE "fold",
                  !.alphas = Append(@, alpha),
                  !.accs = Append(@, accumulate(sc.accs[k], sc.max_n_padded,
                                                sc.returned[k].self, sc.insts[k].proof,
                                                sc.verification_scalars[k].scalars, alpha))]
    /\ UNCHANGED <<cs_vars, verify_vars, batch_vars, flat, fr_exp>>

\* The multiscalar multiplication of the batch, whose value is any point.
BatchMultiExp ==
    /\ sc.pc = "msm"
    /\ \E multi_exp \in G1Affine :
         sc' = [sc EXCEPT !.pc = "done",
                          !.result = IF multi_exp # Identity THEN VerificationError ELSE Ok]
    /\ UNCHANGED <<cs_vars, verify_vars, batch_vars, flat, fr_exp>>

NextScalars ==
    \/ VerifyWithScalars
    \/ BatchEnter
    \/ BatchCollect
    \/ BatchAccumulate
    \/ BatchMultiExp

SpecScalars == InitScalars /\ [][NextScalars]_vars

(* ======================================================================= *)
(* The claims                                                              *)
(* ======================================================================= *)

\* The verifier was built and verify has not been called.
Phase1 == stage = "phase1"

\* verify was called.
Verified == stage = "verified"

\* verification_scalars returned Ok((self, scalars)): the verifier it returns exists.
ScalarsReturned == Verified /\ vs.result = Ok

(* ------------------------------- C1 ------------------------------------ *)

OnlyAllocate == \A j \in 1 .. Len(calls) : calls[j].op = "allocate"

\* C1: starting from a new Verifier, after k calls to allocate and nothing else,
\* num_vars = ceil(k/2), and call j (from 0) returned MultiplierLeft(j/2) for an
\* even j and MultiplierRight((j-1)/2) for an odd j.
C1_PairAllocation ==
    (Phase1 /\ OnlyAllocate) =>
        /\ num_vars = (Len(calls) + 1) \div 2
        /\ \A j \in 0 .. (Len(calls) - 1) :
              calls[j + 1].ret =
                  IF j % 2 = 0
                  THEN <<MultiplierLeft(j \div 2)>>
                  ELSE <<MultiplierRight((j - 1) \div 2)>>

\* Three calls to allocate and nothing else: the third opens a second gate.
C1_Witness == Phase1 /\ OnlyAllocate /\ Len(calls) >= 3 /\ num_vars = 2

(* ------------------------------- C2 ------------------------------------ *)

\* The calls to allocate made by the deferred callbacks.
RandomizingAllocates ==
    { j \in 1 .. Len(calls) : calls[j].randomizing /\ calls[j].op = "allocate" }

\* C2 as stated: once verification_scalars has run, pending_multiplier is None and
\* deferred_constraints is empty, whatever the deferred callbacks did.
C2_Original ==
    ScalarsReturned => (pending_multiplier = None /\ deferred_constraints = <<>>)

\* C2 as amended: once verification_scalars has returned, deferred_constraints is
\* empty, and pending_multiplier is None unless the callbacks called allocate an
\* odd number of times; it is then Some(i) for a gate i >= n1 of the second phase.
C2_AfterScalars ==
    ScalarsReturned =>
        /\ deferred_constraints = <<>>
        /\ pending_multiplier.some <=> (Cardinality(RandomizingAllocates) % 2 = 1)
        /\ pending_multiplier.some =>
              (vs.n1 <= pending_multiplier.i /\ pending_multiplier.i < num_vars)
        /\ ~pending_multiplier.some => pending_multiplier = None

\* A half-gate was pending when verify was called, callbacks ran, and none is
\* pending afterwards.
C2_Witness ==
    /\ ScalarsReturned
    /\ before.pending_multiplier.some
    /\ before.deferred_constraints # <<>>
    /\ pending_multiplier = None

(* ------------------------------- C3 ------------------------------------ *)

\* C3: every Committed(i) term of every stored constraint has i < |V|, so that
\* the write to wV[i] in flattened_constraints is in range.
C3_CommittedInRange ==
    /\ \A q \in 1 .. Len(constraints) :
          \A k \in 1 .. Len(constraints[q]) :
              constraints[q][k][1].tag = "Committed" => constraints[q][k][1].i < Len(V)
    /\ Verified => vs.result # Panic("index out of bounds")

(* ------------------------------- C4 ------------------------------------ *)

\* The calls that opened a gate: multiply, allocate_multiplier, and an allocate
\* that returned a left wire.
GateCalls ==
    { j \in 1 .. Len(calls) :
        /\ calls[j].op \in {"multiply", "allocate", "allocate_multiplier"}
        /\ calls[j].ret[1].tag = "MultiplierLeft" }

GateIndex(j) == calls[j].ret[1].i

\* C4: in either phase num_vars is the number of distinct gate indices handed
\* out, every multiplier variable returned has its index in [0, num_vars), and
\* two gate allocations never return the same index.
C4_GateIndices ==
    /\ num_vars = Cardinality({ GateIndex(j) : j \in GateCalls })
    /\ \A j \in 1 .. Len(calls) :
          \A k \in 1 .. Len(calls[j].ret) :
              IsMultiplier(calls[j].ret[k]) =>
                  (0 <= calls[j].ret[k].i /\ calls[j].ret[k].i < num_vars)
    /\ \A j1, j2 \in GateCalls : j1 # j2 => GateIndex(j1) # GateIndex(j2)

\* Gates were opened in both phases, by allocate and by another call.
C4_Witness ==
    /\ Verified
    /\ \E j1, j2 \in GateCalls :
          /\ ~calls[j1].randomizing /\ calls[j1].op = "allocate"
          /\ calls[j2].randomizing /\ calls[j2].op # "allocate"

(* ------------------------------- C5 ------------------------------------ *)

\* The padded size of the circuit that verify was given, as far as it got.
padded_n == next_power_of_two(num_vars)

TooFewGenerators == Verified /\ bp_gens.gens_capacity < padded_n

Phase1Fields == {"A_I1", "A_O1", "S1"}

Phase2Fields == {"A_I2", "A_O2", "S2"}

TFields == {"T_1", "T_3", "T_4", "T_5", "T_6"}

Phase1PointsValid == \A f \in Phase1Fields : proof[f] # Identity

\* The deferred callbacks that verify was given.
Callbacks == before.deferred_constraints

CallbacksOk == \A k \in 1 .. Len(Callbacks) : Callbacks[k].result = Ok

Appended(t, labels) == { i \in 1 .. Len(t) : t[i].op = "append" /\ t[i].label \in labels }

\* C5 as stated: when the generator capacity is below padded_n, verify returns
\* InvalidGeneratorsLength, before any proof point is validated.
C5_Original == TooFewGenerators => result = InvalidGeneratorsLength

\* C5 as amended: when the generator capacity is below padded_n, A_I1, A_O1, S1
\* are not the identity and no deferred callback fails, verify returns
\* InvalidGeneratorsLength; it returns before A_I2, A_O2, S2 are appended, before
\* y is drawn and before any T_i is validated.
C5_GeneratorsLength ==
    (TooFewGenerators /\ Phase1PointsValid /\ CallbacksOk) =>
        /\ result = InvalidGeneratorsLength
        /\ vs.result = InvalidGeneratorsLength
        /\ ~vs.drew_y
        /\ Appended(transcript, Phase2Fields \cup TFields) = {}
        /\ Appended(transcript, Phase1Fields) # {}

\* Too few generators for a circuit that grew in the second phase, with a proof
\* whose T_1 is the identity: InvalidGeneratorsLength.
C5_Witness ==
    /\ TooFewGenerators
    /\ result = InvalidGeneratorsLength
    /\ proof.T_1 = Identity
    /\ vs.n1 < num_vars

(* ------------------------------- C6 ------------------------------------ *)

\* The challenge y that verification_scalars drew, if it got that far.
DrawnY ==
    IF vs.drew_y
    THEN LET i == CHOOSE i \in 1 .. Len(vs.self.transcript) :
                      /\ vs.self.transcript[i].op = "challenge"
                      /\ vs.self.transcript[i].label = "y"
         IN  vs.self.transcript[i].data
    ELSE 0

\* C6 as stated: a proof in which A_I1, A_O1, S1 or a T_i is the identity is
\* rejected with VerificationError.
C6_Original ==
    (Verified /\ \E f \in Phase1Fields \cup TFields : proof[f] = Identity)
        => result = VerificationError

\* C6 as amended: an identity A_I1, A_O1 or S1 is rejected with VerificationError
\* before any callback runs; an identity T_i is always rejected, with
\* VerificationError unless a callback failed or the generators were too few,
\* which are reported first; A_I2, A_O2 and S2 are appended without validation,
\* and the outcome does not depend on their being the identity.
C6_IdentityRejection ==
    /\ (Verified /\ \E f \in Phase1Fields : proof[f] = Identity) =>
          (result = VerificationError /\ calls = before.calls)
    /\ (Verified /\ \E f \in TFields : proof[f] = Identity) =>
          /\ result # Ok
          /\ (Phase1PointsValid /\ CallbacksOk /\ ~TooFewGenerators)
                => (result = VerificationError /\ vs.drew_y)
    /\ (Verified /\ \E f \in Phase2Fields : proof[f] = Identity) =>
          /\ vs.drew_y =>
                \E i \in Appended(transcript, Phase2Fields) : transcript[i].data = Identity
          /\ result = verify(before,
                             [proof EXCEPT !.A_I2 = 1, !.A_O2 = 1, !.S2 = 1],
                             bp_gens, DrawnY, mega_check).result

\* A proof whose T_3 is the identity got as far as the T commitments and was
\* rejected there.
C6_Witness ==
    /\ Verified
    /\ proof.T_3 = Identity
    /\ vs.drew_y
    /\ result = VerificationError
    /\ Appended(transcript, {"T_1"}) # {}

(* ------------------------------- C7 ------------------------------------ *)

Ops(t) == [i \in 1 .. Len(t) |-> <<t[i].op, t[i].label>>]

\* The challenges a callback draws, in the order of its body.
Draws(callback) ==
    LET d == SelectSeq(callback.body, LAMBDA step : step.op = "challenge_scalar")
    IN  [i \in 1 .. Len(d) |-> <<"challenge", d[i].label>>]

RECURSIVE CallbackDraws(_)
CallbackDraws(callbacks) ==
    IF callbacks = <<>>
    THEN <<>>
    ELSE Draws(Head(callbacks)) \o CallbackDraws(Tail(callbacks))

RECURSIVE Rounds(_)
Rounds(lg_n) ==
    IF lg_n = 0
    THEN <<>>
    ELSE << <<"append", "L">>, <<"append", "R">>, <<"challenge", "u">> >> \o Rounds(lg_n - 1)

\* The order of section 4.6, for the callbacks and the proof verify was given.
ExpectedOrder ==
    << <<"append", "m">>, <<"append", "A_I1">>, <<"append", "A_O1">>, <<"append", "S1">> >>
    \o (IF Callbacks = <<>>
        THEN << <<"dom_sep", "r1cs-1phase">> >>
        ELSE << <<"dom_sep", "r1cs-2phase">> >> \o CallbackDraws(Callbacks))
    \o << <<"append", "A_I2">>, <<"append", "A_O2">>, <<"append", "S2">>,
          <<"challenge", "y">>, <<"challenge", "z">>,
          <<"append", "T_1">>, <<"append", "T_3">>, <<"append", "T_4">>,
          <<"append", "T_5">>, <<"append", "T_6">>,
          <<"challenge", "u">>, <<"challenge", "x">>,
          <<"append", "t_x">>, <<"append", "t_x_blinding">>, <<"append", "e_blinding">>,
          <<"challenge", "w">> >>
    \o Rounds(Len(proof.ipp_proof.L_vec))

\* C7: in a run of verification_scalars that reaches its end, the transcript
\* operations follow the order m; A_I1, A_O1, S1; phase separator; callback
\* draws; A_I2, A_O2, S2; y, z; T_1..T_6; u, x; t_x, t_x_blinding, e_blinding; w;
\* the inner-product rounds; and r is drawn last, from a clone.
C7_TranscriptOrder ==
    ScalarsReturned =>
        /\ Ops(transcript) = Ops(before.transcript) \o ExpectedOrder
        /\ Ops(vs.clone) = Ops(transcript) \o << <<"challenge", "r">> >>

\* A run that reached its end with two callbacks, one of which drew a challenge,
\* and with an inner-product proof of one round.
C7_Witness ==
    /\ ScalarsReturned
    /\ Len(Callbacks) >= 2
    /\ CallbackDraws(Callbacks) # <<>>
    /\ Len(proof.ipp_proof.L_vec) >= 1

(* ------------------------------- C8 ------------------------------------ *)

\* The first callback of a list to fail, if one fails.
FirstFailing(callbacks) ==
    { k \in 1 .. Len(callbacks) :
        /\ callbacks[k].result # Ok
        /\ \A j \in 1 .. (k - 1) : callbacks[j].result = Ok }

\* The callbacks of this verifier are run for this proof, and one of them
\* returns GadgetError(msg).
ReturnsGadgetError(verifier, pr, msg) ==
    /\ \A f \in {"A_I1", "A_O1", "S1"} : pr[f] # Identity
    /\ \E k \in FirstFailing(verifier.deferred_constraints) :
          verifier.deferred_constraints[k].result = GadgetError(msg)

Messages == {"a", "b"}

\* C8: when a callback registered with specify_randomized_constraints returns
\* GadgetError(msg), verification_scalars and verify return GadgetError(msg), and
\* batch_verify returns GadgetError(msg) when it comes to that instance.
C8_GadgetErrorUnchanged ==
    \A msg \in Messages :
        /\ (Verified /\ ReturnsGadgetError(before, proof, msg)) =>
              (vs.result = GadgetError(msg) /\ result = GadgetError(msg))
        /\ \A k \in 1 .. Len(batch.returned) :
              ReturnsGadgetError(instances[k].verifier, instances[k].proof, msg) =>
                  /\ batch.returned[k].result = GadgetError(msg)
                  /\ batch.result = GadgetError(msg)
                  /\ batch.pc = "done"
                  /\ k = Len(batch.returned)

\* batch_verify came to a second instance whose callback returned
\* GadgetError("a"), and returned it.
C8_Witness ==
    /\ Len(batch.returned) = 2
    /\ ReturnsGadgetError(instances[2].verifier, instances[2].proof, "a")
    /\ batch.result = GadgetError("a")

(* ------------------------------- C9 ------------------------------------ *)

\* The first callback to fail, when the callbacks were run and one failed.
Failing ==
    { k \in 1 .. Len(Callbacks) :
        /\ Callbacks[k].result # Ok
        /\ \A j \in 1 .. (k - 1) : Callbacks[j].result = Ok }

CallbackFailed == Verified /\ Phase1PointsValid /\ Failing # {}

\* C9 as stated: if a deferred callback returns failure, verification reports
\* VerificationError.
C9_Original == CallbackFailed => result = VerificationError

\* C9 as amended: if a deferred callback returns failure, verification stops
\* there and reports the error the callback returned, whatever its kind; it is
\* VerificationError only when the callback returned VerificationError.
C9_CallbackFailure ==
    CallbackFailed =>
        \A k \in Failing :
            /\ result = Callbacks[k].result
            /\ vs.invoked = k
            /\ ~vs.drew_y
            /\ (result = VerificationError) <=> (Callbacks[k].result = VerificationError)

\* The second callback failed with a GadgetError after the first succeeded.
C9_Witness ==
    /\ CallbackFailed
    /\ \E k \in Failing : k >= 2 /\ Callbacks[k].result.kind = "GadgetError"
    /\ result.kind = "GadgetError"

(* ------------------------------- C10 ----------------------------------- *)

\* C10: the coefficient alpha that batch_verify draws for an instance is never
\* zero, whatever the random number generator produces.
C10_AlphaNonZero == \A k \in 1 .. Len(batch.alphas) : batch.alphas[k] # 0

(* ------------------------------- C11 ----------------------------------- *)

\* The challenge y drawn in a run of verification_scalars, if it got that far.
ChallengeY(v) ==
    IF v.drew_y
    THEN LET i == CHOOSE i \in 1 .. Len(v.self.transcript) :
                      /\ v.self.transcript[i].op = "challenge"
                      /\ v.self.transcript[i].label = "y"
         IN  v.self.transcript[i].data
    ELSE 0

BatchDone == batch.pc = "done"

\* verify of instance k taken alone: the same verifier, proof, generators and
\* challenges, and the point its own multiscalar multiplication evaluates to.
VerifyAlone(k) ==
    verify(instances[k].verifier, instances[k].proof, batch.bp_gens,
           ChallengeY(batch.returned[k]),
           IF k <= Len(batch.mega_checks) THEN batch.mega_checks[k] ELSE Identity).result

\* Every instance was processed and verify accepts each of them taken alone.
EachVerifyOk ==
    /\ Len(batch.returned) = Len(instances)
    /\ \A k \in 1 .. Len(instances) : VerifyAlone(k) = Ok

\* The exception the spec allows: non-zero coefficients for which the non-zero
\* results of the instances cancel in the sum.
Cancellation ==
    /\ \A k \in 1 .. Len(batch.alphas) : batch.alphas[k] # 0
    /\ \E k \in 1 .. Len(batch.mega_checks) : batch.mega_checks[k] # Identity
    /\ Len(batch.alphas) = Len(batch.mega_checks)
    /\ batch.multi_exp = Identity

\* C11: batch_verify returns Ok if and only if verify returns Ok for each
\* instance taken alone, but for non-zero coefficients that make the instances'
\* results cancel.
C11_BatchEquivalence ==
    (BatchDone /\ ~Cancellation) => ((batch.result = Ok) <=> EachVerifyOk)

(* ------------------------------- C12 ----------------------------------- *)

\* The instances whose verification_scalars did not return Ok.
FailedInstances ==
    { k \in 1 .. Len(batch.returned) : batch.returned[k].result # Ok }

\* C12: when instance k is the first whose verification_scalars fails,
\* batch_verify returns that instance's error at once: no later instance is
\* processed, no alpha is drawn and no multiscalar multiplication is run; and a
\* combined multiscalar multiplication that is not the identity is reported as
\* VerificationError, which names no instance.
C12_FirstFailure ==
    /\ \A k \in FailedInstances :
          /\ k = Len(batch.returned)
          /\ \A j \in 1 .. (k - 1) : batch.returned[j].result = Ok
          /\ batch.pc = "done"
          /\ batch.result = batch.returned[k].result
          /\ Len(batch.verifiers) = k - 1
          /\ batch.alphas = <<>>
          /\ batch.multi_exp = Identity
          /\ ~ENABLED BatchScalars
          /\ ~ENABLED BatchFold
          /\ ~ENABLED BatchMSM
    /\ (BatchDone /\ FailedInstances = {}) =>
          /\ Len(batch.alphas) = Len(instances)
          /\ batch.result = IF batch.multi_exp # Identity THEN VerificationError ELSE Ok

\* The first of two instances failed: batch_verify is over and the second was
\* never processed.
C12_Witness ==
    /\ Len(instances) = 2
    /\ FailedInstances = {1}
    /\ BatchDone
    /\ batch.result.kind \in {"VerificationError", "GadgetError", "InvalidGeneratorsLength"}

(* ------------------------------- C13 ----------------------------------- *)

RECURSIVE Power(_, _)
Power(x, k) == IF k = 0 THEN 1 ELSE Mul(x, Power(x, k - 1))

\* The sum in Fr of the items of a sequence.
RECURSIVE Sum(_)
Sum(s) == IF s = <<>> THEN 0 ELSE Add(Head(s), Sum(Tail(s)))

\* The terms of a constraint list, each with the number q (from 1) of its
\* constraint: <<q, var, coeff>>, in the order of the list.
RECURSIVE NumberedFrom(_, _)
NumberedFrom(cs, q) ==
    IF cs = <<>>
    THEN <<>>
    ELSE [k \in 1 .. Len(Head(cs)) |-> <<q, Head(cs)[k][1], Head(cs)[k][2]>>]
             \o NumberedFrom(Tail(cs), q + 1)

Numbered == NumberedFrom(constraints, 1)

\* The sum over the terms in var of z^q * coeff.
Weighted(var, z) ==
    LET of == SelectSeq(Numbered, LAMBDA t : t[2] = var)
    IN  Sum([k \in 1 .. Len(of) |-> Mul(Power(z, of[k][1]), of[k][3])])

Dot(w, a) == Sum([i \in 1 .. Len(w) |-> Mul(w[i], a[i])])

\* The witness assignments: a value for the left and the right wire of each
\* gate, their product on its output wire, and a value for each commitment.
Assignments ==
    { [a_L |-> l, a_R |-> r, a_O |-> [i \in 1 .. num_vars |-> Mul(l[i], r[i])], v |-> c] :
        l \in [1 .. num_vars -> Fr], r \in [1 .. num_vars -> Fr], c \in [1 .. Len(V) -> Fr] }

ValueOf(var, a) ==
    CASE var.tag = "MultiplierLeft" -> a.a_L[var.i + 1]
      [] var.tag = "MultiplierRight" -> a.a_R[var.i + 1]
      [] var.tag = "MultiplierOutput" -> a.a_O[var.i + 1]
      [] var.tag = "Committed" -> a.v[var.i + 1]
      [] var.tag = "One" -> 1

\* The sum over the constraints of z^q times the value of constraint q.
WeightedConstraints(numbered, z, a) ==
    Sum([k \in 1 .. Len(numbered) |->
            Mul(Power(z, numbered[k][1]), Mul(numbered[k][3], ValueOf(numbered[k][2], a)))])

\* C13: flattened_constraints weights constraint q (from 1) by z^q, adds
\* weight * coeff into wL[i], wR[i], wO[i], subtracts it from wV[i] and from wc,
\* and sums the terms in the same variable; hence for every assignment the
\* weighted sum of the constraints is <wL,a_L> + <wR,a_R> + <wO,a_O> - <wV,v> - wc.
C13_Flattening ==
    flat.done =>
        /\ \A i \in 0 .. (num_vars - 1) :
              /\ flat.w.wL[i + 1] = Weighted(MultiplierLeft(i), flat.z)
              /\ flat.w.wR[i + 1] = Weighted(MultiplierRight(i), flat.z)
              /\ flat.w.wO[i + 1] = Weighted(MultiplierOutput(i), flat.z)
        /\ \A i \in 0 .. (Len(V) - 1) :
              flat.w.wV[i + 1] = Neg(Weighted(Committed(i), flat.z))
        /\ flat.w.wc = Neg(Weighted(One, flat.z))
        /\ \A numbered \in {Numbered} : \A a \in Assignments :
              WeightedConstraints(numbered, flat.z, a) =
                  Add(Add(Add(Dot(flat.w.wL, a.a_L), Dot(flat.w.wR, a.a_R)),
                          Add(Dot(flat.w.wO, a.a_O), Neg(Dot(flat.w.wV, a.v)))),
                      Neg(flat.w.wc))

\* Three constraints flattened with z = 2, one of them with a variable twice.
C13_Witness ==
    /\ flat.done
    /\ flat.z = 2
    /\ Len(constraints) = 3
    /\ \E k \in 1 .. (Len(Numbered) - 1) :
          /\ Numbered[k][2] = MultiplierOutput(1)
          /\ Numbered[k + 1][2] = MultiplierOutput(1)
    /\ flat.w.wO[2] # 0

(* ------------------------------- C18 ----------------------------------- *)

\* C18: item k (from 0) of exp_iter(x) is x^k, the first item being 1; so the
\* first padded_n items, which make y_inv_vec, are the powers y_inv^i.
C18_Powers ==
    /\ \A k \in 0 .. (Len(fr_exp.taken) - 1) :
          fr_exp.taken[k + 1] = Power(fr_exp.iter.x, k)
    /\ Len(fr_exp.taken) > 0 => fr_exp.taken[1] = 1
    /\ fr_exp.iter.next_exp_x = Power(fr_exp.iter.x, Len(fr_exp.taken))

\* Four items of exp_iter(2): 1, 2, 4, 8 in the field.
C18_Witness ==
    /\ fr_exp.iter.x = 2
    /\ fr_exp.taken = <<1, 2, 4 % FrModulus, 8 % FrModulus>>

(* ------------------------------- C14 ----------------------------------- *)

\* The transcript ends with what the inner-product sub-verifier did on it: the
\* challenge w, then L_i, R_i and a challenge for each round of the proof.
EndsWithInnerProduct(t, ipp) ==
    LET lg_n == Len(ipp.L_vec)
        w == Len(t) - 3 * lg_n
    IN  /\ w >= 1
        /\ t[w] = Entry("challenge", "w", 0)
        /\ \A i \in 1 .. lg_n :
              /\ t[w + 3 * i - 2] = Entry("append", "L", ipp.L_vec[i])
              /\ t[w + 3 * i - 1] = Entry("append", "R", ipp.R_vec[i])
              /\ t[w + 3 * i].op = "challenge"

\* C14: drawing r does not advance the transcript: after verification_scalars,
\* and in what verify_and_return_transcript returns, the transcript is as the
\* inner-product sub-verifier left it, and r is the next draw of a copy of it.
C14_RandomizerFromClone ==
    ScalarsReturned =>
        /\ EndsWithInnerProduct(vs.self.transcript, proof.ipp_proof)
        /\ \A i \in 1 .. Len(vs.self.transcript) : vs.self.transcript[i].label # "r"
        /\ vs.clone = challenge_scalar(vs.self.transcript, "r")
        /\ transcript = vs.self.transcript

\* verify returned Ok for a proof with an inner-product round.
C14_Witness ==
    /\ ScalarsReturned
    /\ result = Ok
    /\ Len(proof.ipp_proof.L_vec) >= 1

(* ------------------------------- C15 ----------------------------------- *)

\* C15: verify ends by returning success or one error of R1CSError, and never
\* aborts, whatever the circuit, the proof and the challenges.
C15_NoAbort ==
    Verified =>
        result.kind \in {"Ok", "VerificationError", "InvalidGeneratorsLength", "GadgetError"}

(* ------------------------------- C16 ----------------------------------- *)

\* The step is one call of op, the last entry of calls'.
CallOf(op) ==
    /\ Len(calls') = Len(calls) + 1
    /\ calls'[Len(calls')].op = op

CommitCalls(log) == { j \in 1 .. Len(log) : log[j].op = "commit" }

\* What the k-th call of commit does.
CommitEffect ==
    LET k == Cardinality(CommitCalls(calls'))
    IN  /\ Len(V') = k
        /\ \A j \in 1 .. (k - 1) : V'[j] = V[j]
        /\ transcript' = Append(transcript, Entry("append", "V", V'[k]))
        /\ calls'[Len(calls')].ret = <<Committed(k - 1)>>
        /\ UNCHANGED <<num_vars, constraints, pending_multiplier, deferred_constraints>>

\* C16: the k-th call of commit stores its point as V[k-1], appends that point
\* to the transcript under the label V and nothing else, returns Committed(k-1),
\* and leaves num_vars, the constraints, the pending gate and the callbacks alone.
C16_Commit == [][CallOf("commit") => CommitEffect]_vars

\* A second commit, made after calls that are not commits.
C16_Witness ==
    /\ Len(calls) = 3
    /\ calls[1].op = "commit"
    /\ calls[2].op = "multiply"
    /\ calls[3] = Call("commit", <<Committed(1)>>, FALSE)
    /\ V = <<1, 2>>

(* ------------------------------- C17 ----------------------------------- *)

\* What multiply does when num_vars is i.
MultiplyEffect ==
    LET i == num_vars
    IN  /\ calls'[Len(calls')].ret =
              <<MultiplierLeft(i), MultiplierRight(i), MultiplierOutput(i)>>
        /\ num_vars' = i + 1
        /\ \E left \in {LCSecret}, right \in {LCGate} :
              constraints' = constraints \o
                  << left \o << <<MultiplierLeft(i), (0 - 1) % FrModulus>> >>,
                     right \o << <<MultiplierRight(i), (0 - 1) % FrModulus>> >> >>

\* C17: multiply called when num_vars is i returns the three wires of gate i,
\* makes num_vars i + 1 and appends two constraints: left with the term
\* (MultiplierLeft(i), -1), then right with the term (MultiplierRight(i), -1).
C17_Multiply == [][CallOf("multiply") => MultiplyEffect]_vars

\* A second multiply, made when constraints were already stored.
C17_Witness ==
    /\ Len(calls) >= 2
    /\ calls[Len(calls)] =
          Call("multiply", <<MultiplierLeft(1), MultiplierRight(1), MultiplierOutput(1)>>, FALSE)
    /\ num_vars = 2
    /\ Len(constraints) >= 4

(* ------------------------------- C19 ----------------------------------- *)

\* The calls that verify added to the history.
CallsOfVerify == SubSeq(calls, Len(before.calls) + 1, Len(calls))

\* The callbacks entered, in the order they were entered.
EnteredCallbacks ==
    LET e == SelectSeq(CallsOfVerify, LAMBDA c : c.op = "callback")
    IN  [j \in 1 .. Len(e) |-> e[j].ret[1]]

\* The history that running these callbacks one after the other leaves.
RECURSIVE CallbackTrace(_)
CallbackTrace(callbacks) ==
    IF callbacks = <<>>
    THEN <<>>
    ELSE <<"callback">>
           \o [i \in 1 .. Len(Head(callbacks).body) |-> Head(callbacks).body[i].op]
           \o CallbackTrace(Tail(callbacks))

\* C19: at the phase transition with at least one callback registered, the
\* callbacks are invoked once each in the order of registration, up to and
\* including the first that returns an error; after an error no later callback
\* is invoked and verify ends with an error, with A_I2, A_O2, S2 not appended
\* and y not drawn.
C19_CallbackOrder ==
    (Verified /\ Phase1PointsValid /\ Callbacks # <<>>) =>
        LET n == IF Failing = {} THEN Len(Callbacks) ELSE CHOOSE k \in Failing : TRUE
            run == SubSeq(Callbacks, 1, n)
        IN  /\ EnteredCallbacks = [j \in 1 .. n |-> Invoked(run[j])]
            /\ [i \in 1 .. Len(CallsOfVerify) |-> CallsOfVerify[i].op] = CallbackTrace(run)
            /\ Failing # {} =>
                  /\ result.kind \notin {"Ok", "Panic"}
                  /\ Appended(transcript, Phase2Fields) = {}
                  /\ \A i \in 1 .. Len(transcript) :
                        ~(transcript[i].op = "challenge" /\ transcript[i].label = "y")

\* Three callbacks, the second of which fails: the first two were entered, in
\* that order, and the third was not.
C19_Witness ==
    /\ Verified
    /\ Phase1PointsValid
    /\ Len(Callbacks) = 3
    /\ Failing = {2}
    /\ Callbacks[1] # Callbacks[2]
    /\ Len(EnteredCallbacks) = 2

(* ------------------------------- C20 ----------------------------------- *)

\* The calls made inside the callbacks.
RandomizingCalls == { j \in 1 .. Len(calls) : calls[j].randomizing /\ calls[j].op # "callback" }

\* The allocate calls made inside the callbacks.
Phase2Allocates == { j \in RandomizingCalls : calls[j].op = "allocate" }

\* C20: every multiplier variable returned inside a callback of the second phase
\* has a gate index >= n1, the number of gates of the first phase; after an odd
\* number of allocate calls in the first phase, the first allocate of the second
\* phase returns MultiplierLeft of a new gate, not MultiplierRight of the gate
\* left pending.
C20_Phase2Gates ==
    Verified =>
        /\ \A j \in RandomizingCalls :
              \A k \in 1 .. Len(calls[j].ret) :
                  IsMultiplier(calls[j].ret[k]) =>
                      /\ calls[j].ret[k].i >= before.num_vars
                      /\ vs.n1 = before.num_vars
        /\ (before.pending_multiplier.some /\ Phase2Allocates # {}) =>
              LET first == CHOOSE j \in Phase2Allocates :
                               \A l \in Phase2Allocates : j <= l
              IN  /\ calls[first].ret[1].tag = "MultiplierLeft"
                  /\ calls[first].ret[1].i >= before.num_vars
                  /\ calls[first].ret[1].i # before.pending_multiplier.i

\* A half-gate was pending when verify was called, and a callback called allocate.
C20_Witness ==
    /\ Verified
    /\ before.pending_multiplier.some
    /\ Phase2Allocates # {}
    /\ \E j \in RandomizingCalls : calls[j].op = "multiply"

(* ------------------------------- C25 ----------------------------------- *)

\* The operations other than allocate.
OtherOperations ==
    {"multiply", "allocate_multiplier", "constrain", "commit", "specify_randomized_constraints"}

\* The allocate calls of a phase (the second phase is the calls made by callbacks).
AllocatesOf(randomizing) ==
    { j \in 1 .. Len(calls) : calls[j].op = "allocate" /\ calls[j].randomizing = randomizing }

\* Within each phase the allocate calls go in pairs: the first of a pair returns
\* MultiplierLeft(i), the second MultiplierRight(i), and each gate handed out by
\* a call made between the two has an index greater than i.
PairedAllocates ==
    \A randomizing \in BOOLEAN :
        \A j \in AllocatesOf(randomizing) :
            LET earlier == { l \in AllocatesOf(randomizing) : l < j }
            IN  IF Cardinality(earlier) % 2 = 0
                THEN calls[j].ret[1].tag = "MultiplierLeft"
                ELSE LET l == CHOOSE l \in earlier : \A e \in earlier : e <= l
                         i == calls[l].ret[1].i
                     IN  /\ calls[j].ret = <<MultiplierRight(i)>>
                         /\ \A m \in (l + 1) .. (j - 1) :
                               (/\ calls[m].randomizing = randomizing
                                /\ calls[m].op \in {"multiply", "allocate_multiplier"})
                                   => calls[m].ret[1].i > i

\* C25: multiply, allocate_multiplier, constrain, commit and
\* specify_randomized_constraints leave pending_multiplier unchanged; so within
\* a phase the allocate after one that returned MultiplierLeft(i) returns
\* MultiplierRight(i), whatever other operations were called in between, and the
\* gates those allocate have indices greater than i.
C25_PendingFrame ==
    [][/\ (\E op \in OtherOperations : CallOf(op)) => pending_multiplier' = pending_multiplier
       /\ PairedAllocates']_vars

\* allocate, multiply, allocate: the second allocate returned the right wire
\* of gate 0 after multiply took gate 1.
C25_Witness ==
    /\ Len(calls) = 3
    /\ calls[1] = Call("allocate", <<MultiplierLeft(0)>>, FALSE)
    /\ calls[2].op = "multiply"
    /\ calls[2].ret[1] = MultiplierLeft(1)
    /\ calls[3] = Call("allocate", <<MultiplierRight(0)>>, FALSE)
    /\ pending_multiplier = None

(* ------------------------------- C24 ----------------------------------- *)

\* The challenges drawn through RandomizingVerifier::challenge_scalar.
RandomizedDraws ==
    { j \in 1 .. Len(calls) : calls[j].randomizing /\ calls[j].op = "challenge_scalar" }

\* Their places in the transcript: the challenges under the label a callback uses.
CallbackChallenges ==
    { i \in 1 .. Len(transcript) :
        transcript[i].op = "challenge" /\ transcript[i].label = "e" }

\* The places where m was appended.
CountAppended == Appended(transcript, {"m"})

\* transcript[i] comes after m = |V|, A_I1, A_O1, S1 and the 2-phase domain
\* separator, appended in that order.
AfterPhase1(i) ==
    \E m, a, d \in 1 .. (i - 1) :
        /\ m + 3 = a + 2
        /\ a + 2 < d
        /\ transcript[m] = Entry("append", "m", Len(V))
        /\ transcript[a] = Entry("append", "A_I1", proof.A_I1)
        /\ transcript[a + 1] = Entry("append", "A_O1", proof.A_O1)
        /\ transcript[a + 2] = Entry("append", "S1", proof.S1)
        /\ transcript[d] = Entry("dom_sep", "r1cs-2phase", 0)

\* C24: every challenge drawn through RandomizingVerifier::challenge_scalar is
\* drawn after m = |V|, A_I1, A_O1, S1 and the 2-phase domain separator were
\* appended; no commit follows the first such draw, so the count appended under
\* m is |V| at the end of verification, the length of wV; and the constraints of
\* the first phase and n1 are not changed by what comes later.
C24_ChallengesAfterPhase1 ==
    Verified =>
        /\ Cardinality(CallbackChallenges) = Cardinality(RandomizedDraws)
        /\ \A i \in CallbackChallenges : AfterPhase1(i)
        /\ \A j \in 1 .. Len(calls) : calls[j].randomizing => calls[j].op # "commit"
        /\ \A k \in CountAppended :
              /\ transcript[k].data = Len(V)
              /\ Len(ZeroWeights(Self).wV) = transcript[k].data
              /\ \A i \in Appended(transcript, {"V"}) : i < k
        /\ Cardinality(CountAppended) = 1
        /\ V = before.V
        /\ SubSeq(constraints, 1, Len(before.constraints)) = before.constraints
        /\ vs.n1 = before.num_vars

\* A callback drew a challenge, for a circuit with a commitment, and verify
\* returned Ok.
C24_Witness ==
    /\ Verified
    /\ result = Ok
    /\ CallbackChallenges # {}
    /\ Len(V) >= 1
    /\ Len(constraints) > Len(before.constraints)

(* ------------------------------- C21 ----------------------------------- *)

\* The calls of verification_scalars that returned a vector.
ScalarRuns == 1 .. Len(sc.verification_scalars)

\* The value of an integer expression in Fr.
InFr(e) == e % FrModulus

\* The inverse of y in Fr.
InverseOf(y) == CHOOSE v \in Fr : InFr(y * v) = 1

\* g_scalars[i] and h_scalars[i] as section 4.6 gives them, for run k.
ExpectedG(k, i) ==
    LET v == sc.returned[k]
        ch == sc.draws[k].ch
        s == sc.draws[k].ipp.s
        w == flattened_constraints(v.self, ch.z)
        n == v.self.num_vars
        padded == next_power_of_two(n)
        c_i == IF i < v.n1 THEN 1 ELSE ch.u
        yneg_wR_i == IF i < n THEN w.wR[i + 1] * Power(InverseOf(ch.y), i) ELSE 0
    IN  InFr(c_i * (ch.x * yneg_wR_i - sc.insts[k].proof.ipp_proof.a * s[i + 1]))

ExpectedH(k, i) ==
    LET v == sc.returned[k]
        ch == sc.draws[k].ch
        s == sc.draws[k].ipp.s
        w == flattened_constraints(v.self, ch.z)
        n == v.self.num_vars
        padded == next_power_of_two(n)
        c_i == IF i < v.n1 THEN 1 ELSE ch.u
        wL_pad_i == IF i < n THEN w.wL[i + 1] ELSE 0
        wO_pad_i == IF i < n THEN w.wO[i + 1] ELSE 0
    IN  InFr(c_i * (Power(InverseOf(ch.y), i)
                      * (ch.x * wL_pad_i + wO_pad_i
                           - sc.insts[k].proof.ipp_proof.b * s[(padded - 1 - i) + 1])
                    - 1))

\* C21: g_scalars and h_scalars have padded_n entries each, and for every i in
\* [0, padded_n), g_scalars[i] = c_i * (x * yneg_wR[i] - a * s[i]) and
\* h_scalars[i] = c_i * (y_inv^i * (x * wL_pad[i] + wO_pad[i] - b * s[padded_n-1-i]) - 1),
\* with c_i = 1 for i < n1 and u from n1 on, and zeros for the padding.
C21_GeneratorScalars ==
    \A k \in ScalarRuns :
        LET padded == next_power_of_two(sc.returned[k].self.num_vars)
            out == sc.verification_scalars[k]
        IN  /\ Len(out.g_scalars) = padded
            /\ Len(out.h_scalars) = padded
            /\ \A i \in 0 .. (padded - 1) :
                  /\ out.g_scalars[i + 1] = ExpectedG(k, i)
                  /\ out.h_scalars[i + 1] = ExpectedH(k, i)

\* A run for a circuit with one gate of the first phase, two of the second and
\* one of padding, with u # 1 and entries of g_scalars that are not zero on
\* both sides of n1.
C21_Witness ==
    \E k \in ScalarRuns :
        /\ sc.returned[k].n1 = 1
        /\ sc.returned[k].self.num_vars = 3
        /\ sc.draws[k].ch.u = 2
        /\ sc.verification_scalars[k].g_scalars[1] # 0
        /\ sc.verification_scalars[k].g_scalars[2] # 0
        /\ sc.verification_scalars[k].h_scalars[4] # 0

(* ------------------------------- C22 ----------------------------------- *)

\* verify built its point vector: verification_scalars had returned a vector.
PointsBuilt == sc.pc = "verified" /\ Len(sc.verification_scalars) = 1

Log2(n) == CHOOSE l \in 0 .. n : Pow2(l) = n

\* The order of the points of the claim, for a circuit padded to padded gates,
\* m commitments and lg pairs in the inner-product proof.
ExpectedElems(padded, m, lg) ==
    << Elem("B", 0), Elem("B_blinding", 0) >>
    \o [i \in 1 .. padded |-> Elem("G", i - 1)]
    \o [i \in 1 .. padded |-> Elem("H", i - 1)]
    \o << Elem("A_I1", 0), Elem("A_O1", 0), Elem("S1", 0),
          Elem("A_I2", 0), Elem("A_O2", 0), Elem("S2", 0) >>
    \o [i \in 1 .. m |-> Elem("V", i - 1)]
    \o << Elem("T_1", 0), Elem("T_3", 0), Elem("T_4", 0), Elem("T_5", 0), Elem("T_6", 0) >>
    \o [i \in 1 .. lg |-> Elem("L_vec", i - 1)]
    \o [i \in 1 .. lg |-> Elem("R_vec", i - 1)]

\* The scalar that section 4.6 pairs with a point of run k, for the points
\* after B and B_blinding.
ScalarFor(k, elem) ==
    LET ch == sc.draws[k].ch
        ipp == sc.draws[k].ipp
        out == sc.verification_scalars[k]
        wV == flattened_constraints(sc.returned[k].self, ch.z).wV
        x == ch.x
        u == ch.u
        r == ch.r
    IN  CASE elem.name = "G" -> out.g_scalars[elem.i + 1]
          [] elem.name = "H" -> out.h_scalars[elem.i + 1]
          [] elem.name = "A_I1" -> x
          [] elem.name = "A_O1" -> InFr(x * x)
          [] elem.name = "S1" -> InFr(x * x * x)
          [] elem.name = "A_I2" -> InFr(u * x)
          [] elem.name = "A_O2" -> InFr(u * x * x)
          [] elem.name = "S2" -> InFr(u * x * x * x)
          [] elem.name = "V" -> InFr(wV[elem.i + 1] * r * x * x)
          [] elem.name = "T_1" -> InFr(r * x)
          [] elem.name = "T_3" -> InFr(r * x * x * x)
          [] elem.name = "T_4" -> InFr(r * x * x * x * x)
          [] elem.name = "T_5" -> InFr(r * x * x * x * x * x)
          [] elem.name = "T_6" -> InFr(r * x * x * x * x * x * x)
          [] elem.name = "L_vec" -> ipp.u_sq[elem.i + 1]
          [] elem.name = "R_vec" -> ipp.u_inv_sq[elem.i + 1]

Folds == 1 .. Len(sc.alphas)

\* The points of an instance after the shared ones, in the order of the claim.
ExpectedTail(self, pr) ==
    LET padded == next_power_of_two(self.num_vars)
        all == ExpectedElems(padded, Len(self.V), Len(pr.ipp_proof.L_vec))
    IN  SubSeq(all, 2 + 2 * padded + 1, Len(all))

\* What pass k did to the accumulator.
FoldEffect(k) ==
    LET old == sc.accs[k]
        acc == sc.accs[k + 1]
        self == sc.returned[k].self
        padded == next_power_of_two(self.num_vars)
        max == sc.max_n_padded
        alpha == sc.alphas[k]
        out == sc.verification_scalars[k]
        shared == 2 + 2 * max
        tail == Len(out.scalars) - (2 + 2 * padded)
    IN  /\ padded <= max
        /\ \A i \in 0 .. (padded - 1) :
              /\ acc.all_scalars[2 + i + 1] =
                    InFr(old.all_scalars[2 + i + 1] + alpha * out.g_scalars[i + 1])
              /\ acc.all_scalars[2 + max + i + 1] =
                    InFr(old.all_scalars[2 + max + i + 1] + alpha * out.h_scalars[i + 1])
        /\ \A i \in padded .. (max - 1) :
              /\ acc.all_scalars[2 + i + 1] = old.all_scalars[2 + i + 1]
              /\ acc.all_scalars[2 + max + i + 1] = old.all_scalars[2 + max + i + 1]
        /\ \A p \in (shared + 1) .. Len(old.all_scalars) :
              acc.all_scalars[p] = old.all_scalars[p]
        /\ Len(acc.all_scalars) = Len(old.all_scalars) + tail
        /\ \A p \in 1 .. tail :
              acc.all_scalars[Len(old.all_scalars) + p] =
                  InFr(alpha * out.scalars[2 + 2 * padded + p])
        /\ acc.all_elems = old.all_elems \o ExpectedTail(self, sc.insts[k].proof)
        /\ Len(acc.all_scalars) = Len(acc.all_elems)

\* C23: in batch_verify every instance has padded_n <= max_n_padded; its
\* alpha * g_scalars[i] is added to slot 2 + i and its alpha * h_scalars[i] to
\* slot 2 + max_n_padded + i for i < padded_n, the slots with i >= padded_n are
\* left as they were, its other scalars are pushed in the order of its points
\* A_I1, A_O1, S1, A_I2, A_O2, S2, V, T_1, T_3, T_4, T_5, T_6, L_vec, R_vec, and
\* the scalar list and the point list have the same length.
C23_BatchSlots ==
    /\ \A k \in Folds : FoldEffect(k)
    /\ \A j \in 1 .. Len(sc.accs) :
          Len(sc.accs[j].all_scalars) = Len(sc.accs[j].all_elems)

\* A batch of an instance of padded_n = 4 and one of padded_n = 1, both added
\* with alpha # 0, the second after slots of the first were filled.
C23_Witness ==
    /\ Len(sc.alphas) = 2
    /\ sc.max_n_padded = 4
    /\ next_power_of_two(sc.returned[2].self.num_vars) = 1
    /\ sc.alphas[1] # 0
    /\ sc.alphas[2] # 0
    /\ sc.accs[2].all_scalars[4] # 0
    /\ sc.verification_scalars[2].g_scalars[1] # 0
    /\ sc.verification_scalars[2].h_scalars[1] # 0

====
